---- MODULE Spec2Model ----
(***************************************************************************)
(* Model of the build-progress aggregation engine of localflux (package    *)
(* progress): the Trace event aggregator, its interval merge and its log   *)
(* reassembly.  All line numbers refer to                                  *)
(* src/internal/config/v1alpha1/config.go.                                 *)
(***************************************************************************)
EXTENDS Integers, Sequences, FiniteSets, TLC

VARIABLES
    mInput,     \* mergeIntervals: the slice passed by the caller
    mOut,       \* mergeIntervals(mInput)
    mOut2,      \* mergeIntervals(mOut)
    mpc,        \* "input" -> "merged" -> "remerged" ("idle": no merge call)
    startTime,  \* Trace.startTime
    vertexes,   \* Trace.vertexes: the display order, a list of vertex objects
    byDigest,   \* Trace.byDigest: digest -> vertex object
    obj,        \* the vertex objects (Trace.groups are the group objects)
    updates,    \* Trace.updates
    localTimeDiff, \* Trace.localTimeDiff
    modeConsole,   \* Trace.modeConsole
    TermHeight,    \* the package variable TermHeight
    panicked,      \* a call has hit a nil dereference or an index out of range
    dinfo,      \* what the last DisplayInfo call returned
    rows,       \* what the last SetupTerminals call returned
    errorLogs,  \* what the last ErrorLogs call returned
    batch,      \* the SolveStatus passed to the last Update call
    nUpdates,   \* number of Update calls so far
    stream,     \* per digest, the log bytes Update has stored so far
    buildpc,    \* Builder.Build: "idle" (no call), "wait" (in errgrp.Wait), "returned"
    rpcpc,      \* the goroutine of Solve: "solve", "returned" (from Solve), "done"
    drainpc,    \* the goroutine of the loop: "recv", "fn", "infn", "done"
    statusChan, \* the unbuffered channel: "open" or "closed"
    recvd,      \* ss of the loop: the status received and not yet passed to fn
    solveErr,   \* the error Solve returned
    gctx,       \* the group context: TRUE once cancelled
    errgrp,     \* the error the group has recorded, the first one
    result,     \* what Build returned
    sent,       \* the statuses Solve has sent on statusChan, in order
    calls,      \* the statuses fn has been called with, in order
    active      \* number of calls of fn that have begun and not returned

mergeVars == <<mInput, mOut, mOut2, mpc>>

traceVars == <<startTime, vertexes, byDigest, obj, updates, localTimeDiff,
               modeConsole, TermHeight, panicked>>

viewVars == <<dinfo, rows, errorLogs>>

buildVars == <<buildpc, rpcpc, drainpc, statusChan, recvd, solveErr, gctx, errgrp,
               result, sent, calls, active>>

vars == <<mInput, mOut, mOut2, mpc, startTime, vertexes, byDigest, obj, updates,
          localTimeDiff, modeConsole, TermHeight, panicked, dinfo, rows,
          errorLogs, batch, nUpdates, stream, buildpc, rpcpc, drainpc,
          statusChan, recvd, solveErr, gctx, errgrp, result, sent, calls, active>>

----------------------------------------------------------------------------
(* Bounds *)

\* time stamps are the instants 0..MaxTime
MaxTime == 2
\* longest interval slice handed to mergeIntervals by the merge specification
MaxIvals == 3
\* number of Update calls in a behaviour of Spec
MaxUpdates == 3
\* number of Update calls in a behaviour of SpecGroup
MaxGroupUpdates == 3
\* number of statuses Solve sends in a behaviour of SpecBuild
MaxSends == 3
\* number of Update calls in a behaviour of SpecRepeat
MaxRepeatUpdates == 3
\* number of Update calls in a behaviour of SpecSticky
MaxStickyUpdates == 3
\* number of Update calls in a behaviour of SpecStamps
MaxStampUpdates == 3
\* number of Update calls in a behaviour of SpecSections
MaxSectionUpdates == 2
\* number of Update calls in a behaviour of SpecLog
MaxLogUpdates == 4
\* longest log chunk of SpecLog, in bytes
MaxChunk == 2
\* number of Update calls in a behaviour of SpecMixed
MaxMixedUpdates == 3
\* number of Update calls in a behaviour of SpecRows
MaxRowUpdates == 3
\* number of Update calls in a behaviour of SpecView
MaxViewUpdates == 2

\* Update calls in a behaviour of SpecErrors
MaxErrorUpdates == 3

\* Update calls in a behaviour of SpecStatus
MaxStatusUpdates == 4

\* Update calls in a behaviour of SpecPanes
MaxPaneUpdates == 2

\* a round of the view of SpecPanes starts while no terminal was shown more
\* often than this
MaxReveals == 1

----------------------------------------------------------------------------
(* Time and intervals *)

\* a nil *time.Time
Nil == -1

Times == 0..MaxTime

NTimes == Times \cup {Nil}

\* type Interval struct { start, stop *time.Time }
Interval(s, e) == [start |-> s, stop |-> e]

Intervals == [start : NTimes, stop : NTimes]

\* "remove any intervals that have not started"
filterStarted(intervals) == SelectSeq(intervals, LAMBDA iv : iv.start # Nil)

\* One pass of the inner loop of the insertion sort slices.SortFunc runs on
\* slices of at most 12 elements: x moves left while it compares strictly
\* less than its left neighbour, so it lands behind every element whose
\* start is not after its own (intervals with equal starts keep their order).
RECURSIVE insertByStart(_, _)
insertByStart(sorted, x) ==
    IF sorted = <<>> THEN <<x>>
    ELSE IF x.start < sorted[Len(sorted)].start
         THEN Append(insertByStart(SubSeq(sorted, 1, Len(sorted) - 1), x),
                     sorted[Len(sorted)])
         ELSE Append(sorted, x)

\* the slice left in the order given
sortByStart_AsGiven(intervals) == intervals

\* slices.SortFunc(intervals, a.start.Compare(*b.start))
RECURSIVE sortByStart(_)
sortByStart(intervals) ==
    IF intervals = <<>> THEN <<>>
    ELSE insertByStart(sortByStart(SubSeq(intervals, 1, Len(intervals) - 1)),
                       intervals[Len(intervals)])

\* mutant of stopsBefore: an interval that only touches the next one stands
\* on its own (Before replaced by "not After")
stopsBefore_OrAt(cur, next) == cur.stop <= next.start

\* cur.stop.Before(*next.start)
stopsBefore(cur, next) == cur.stop < next.start

\* cur.stop.After(*next.stop) || cur.stop.Equal(*next.stop)
subsumes(cur, next) == cur.stop > next.stop \/ cur.stop = next.stop

\* mutant of extend: the merged interval keeps cur's stop
extend_KeepStop(cur, next) == Interval(cur.start, cur.stop)

\* cur = Interval{start: cur.start, stop: next.stop}
extend(cur, next) == Interval(cur.start, next.stop)

\* mutant of mergeLoop: next is compared with the previous input interval
\* intervals[i-1] instead of the running merge cur
RECURSIVE mergeLoop_PrevRaw(_, _, _, _)
mergeLoop_PrevRaw(intervals, i, cur, merged) ==
    IF i > Len(intervals) THEN Append(merged, cur)
    ELSE LET next == intervals[i] IN
         IF cur.stop = Nil THEN Append(merged, cur)
         ELSE IF stopsBefore(intervals[i - 1], next)
              THEN mergeLoop_PrevRaw(intervals, i + 1, next, Append(merged, cur))
         ELSE IF next.stop = Nil
              THEN Append(merged, Interval(cur.start, Nil))
         ELSE IF subsumes(cur, next)
              THEN mergeLoop_PrevRaw(intervals, i + 1, cur, merged)
         ELSE mergeLoop_PrevRaw(intervals, i + 1, extend(cur, next), merged)

\* mutant of mergeLoop: a running interval without stop is appended and the
\* scan goes on with next instead of returning
RECURSIVE mergeLoop_NoAbsorb(_, _, _, _)
mergeLoop_NoAbsorb(intervals, i, cur, merged) ==
    IF i > Len(intervals) THEN Append(merged, cur)
    ELSE LET next == intervals[i] IN
         IF cur.stop = Nil
         THEN mergeLoop_NoAbsorb(intervals, i + 1, next, Append(merged, cur))
         ELSE IF stopsBefore(cur, next)
              THEN mergeLoop_NoAbsorb(intervals, i + 1, next, Append(merged, cur))
         ELSE IF next.stop = Nil
              THEN Append(merged, Interval(cur.start, Nil))
         ELSE IF subsumes(cur, next)
              THEN mergeLoop_NoAbsorb(intervals, i + 1, cur, merged)
         ELSE mergeLoop_NoAbsorb(intervals, i + 1, extend(cur, next), merged)

\* the scan "for i := 1; i < len(intervals); i++" with the running interval
\* cur and the result so far; i is the (1-based) index of next
RECURSIVE mergeLoop(_, _, _, _)
mergeLoop(intervals, i, cur, merged) ==
    IF i > Len(intervals) THEN Append(merged, cur)
    ELSE LET next == intervals[i] IN
         IF cur.stop = Nil THEN Append(merged, cur)
         ELSE IF stopsBefore(cur, next)
              THEN mergeLoop(intervals, i + 1, next, Append(merged, cur))
         ELSE IF next.stop = Nil
              THEN Append(merged, Interval(cur.start, Nil))
         ELSE IF subsumes(cur, next)
              THEN mergeLoop(intervals, i + 1, cur, merged)
         ELSE mergeLoop(intervals, i + 1, extend(cur, next), merged)

mergeIntervals(intervals) ==
    LET filtered == filterStarted(intervals) IN
    IF Len(filtered) = 0 THEN <<>>
    ELSE LET sorted == sortByStart(filtered) IN
         mergeLoop(sorted, 2, sorted[1], <<>>)

\* "z := x; F(z)": x is evaluated once, then F is applied to its value
Bind(x, F(_)) == CHOOSE r \in {F(z) : z \in {x}} : TRUE

\* the slices of at most n elements of S
SeqsUpTo(S, n) == UNION {[1..k -> S] : k \in 0..n}

----------------------------------------------------------------------------
(* The Trace: messages and vertex objects *)

\* digests of the build engine's vertices, ids of its progress groups
Digests == {"d1", "d2"}

GroupIds == {"g1"}

\* keys of Trace.byDigest: a group is entered under digest.Digest(group id)
Keys == Digests \cup GroupIds

\* v.ProgressGroup == nil
NoGroup == ""

\* client.Vertex{Digest, Name, Started, Completed, Cached, Error,
\* ProgressGroup{Id, Weak}}
ZeroVertex ==
    [Digest |-> "", Name |-> "", Started |-> Nil, Completed |-> Nil,
     Cached |-> FALSE, Error |-> "", Group |-> NoGroup, Weak |-> FALSE]

\* the vertex objects: one per digest that came without progress group while
\* byDigest had no entry for it (line 171), one per progress group (line 142)
VtxObj(d) == <<"vertex", d>>

GrpObj(g) == <<"group", g>>

ObjIds == {VtxObj(d) : d \in Digests} \cup {GrpObj(g) : g \in GroupIds}

\* a missing map entry, a nil *vertex
NoObj == <<>>

\* a nil *vt100.VT100
NoTerm == [Height |-> 0, Width |-> 0]

\* type vertex struct.  alloc tells whether the object exists, hasVertex
\* whether the embedded *client.Vertex is set, hasTerm whether Term is set;
\* of the terminal only its size is kept.  lastBlockTime and the fields of
\* the printer (index, events, logsOffset, logsBuffer, warningIdx) are left
\* out: nothing here writes them.
NewVertexObj ==
    [alloc |-> TRUE, hasVertex |-> FALSE, Vertex |-> ZeroVertex,
     hasPrev |-> FALSE, prev |-> ZeroVertex, count |-> 0,
     statuses |-> <<>>, byID |-> {}, statusUpdates |-> {},
     logs |-> <<>>, logsPartial |-> FALSE, warnings |-> <<>>,
     jobCached |-> FALSE, intervals |-> {}, mergedIntervals |-> <<>>,
     hidden |-> FALSE, subVtxs |-> {},
     hasTerm |-> FALSE, Term |-> NoTerm, termBytes |-> 0, TermCount |-> 0,
     indent |-> "", jobs |-> <<>>]

NoVertexObj == [NewVertexObj EXCEPT !.alloc = FALSE]

\* &vertexGroup{vertex: &vertex{Vertex: &client.Vertex{Digest: id, Name:
\* ProgressGroup.Name}, hidden: true}}; a group's name is its id here
NewGroupObj(g) ==
    [NewVertexObj EXCEPT !.hasVertex = TRUE,
                         !.Vertex = [ZeroVertex EXCEPT !.Digest = g, !.Name = g],
                         !.hidden = TRUE]

\* const termHeightMin; var termHeightInitial = termHeightMin, never assigned
termHeightMin == 6

termHeightInitial == termHeightMin

\* const TermPad
TermPad == 10

\* the termWidth the driver passes to Update
TermWidth == 80

\* time.Since(start) where Update sets localTimeDiff: the local clock is this
\* far ahead of the build engine's
ClockAhead == 5

\* vt100.NewVT100(rows, cols), Term.Resize(rows, cols)
NewVT100(r, c) == [Height |-> r, Width |-> c]

\* the Trace, with the package variable TermHeight, as one value; panicked
\* tells that the running call has failed
TraceOf(st, vs, bd, ob, up, ltd, mc, th) ==
    [startTime |-> st, vertexes |-> vs, byDigest |-> bd, obj |-> ob,
     updates |-> up, localTimeDiff |-> ltd, modeConsole |-> mc,
     TermHeight |-> th, panicked |-> FALSE]

\* func NewTrace(modeConsole bool) *Trace; TermHeight starts as termHeightMin
NewTrace(mc) ==
    TraceOf(Nil, <<>>, [k \in Keys |-> NoObj], [o \in ObjIds |-> NoVertexObj], {},
            0, mc, termHeightMin)

\* lines 155-157, 176-178: the terminal of a new vertex in console mode
withTerm(t, v) ==
    IF t.modeConsole
    THEN [v EXCEPT !.hasTerm = TRUE,
                   !.Term = NewVT100(t.TermHeight, TermWidth - TermPad)]
    ELSE v

\* func (v *vertex) update(c int)
update(v, c) == [v EXCEPT !.count = @ + c]

\* func (v *vertex) isStarted() bool
isStarted(v) == Len(v.mergedIntervals) > 0

\* func (v *vertex) mostRecentInterval() *Interval; only called when started
mostRecentInterval(v) == v.mergedIntervals[Len(v.mergedIntervals)]

\* func (v *vertex) isCompleted() bool
isCompleted(v) == isStarted(v) /\ mostRecentInterval(v).stop # Nil

\* a map start -> Interval as the set of its values; m[start] = ival
putInterval(m, ival) == {x \in m : x.start # ival.start} \cup {ival}

\* "for _, ival := range intervals { ivals = append(ivals, ival) }": the map
\* is read in an unspecified order; its keys are the starts, so the sort of
\* mergeIntervals leaves one order only.  The slice is built by ascending start.
RECURSIVE rangeIntervals(_)
rangeIntervals(m) ==
    IF m = {} THEN <<>>
    ELSE LET last == CHOOSE x \in m : \A y \in m : y.start <= x.start IN
         Append(rangeIntervals(m \ {last}), last)

\* triggerVertexEvent, lines 96-122: whether message v differs from the last
\* started message of the vertex.  The messages of two calls never share a
\* *time.Time, so the pointer comparisons of lines 109 and 114 hold whenever
\* the new pointer is not nil.
vertexChanged(vtx, v) ==
    LET old == IF vtx.hasPrev THEN vtx.prev ELSE ZeroVertex IN
    \/ v.Digest # old.Digest
    \/ v.Name # old.Name
    \/ old.Started = Nil \/ v.Started # old.Started
    \/ v.Completed # Nil
    \/ v.Cached # old.Cached
    \/ v.Error # old.Error

\* func (t *Trace) triggerVertexEvent(v *client.Vertex); o is t.byDigest[v.Digest]
triggerVertexEvent(t, o, v) ==
    IF v.Started = Nil THEN t
    ELSE IF ~t.obj[o].alloc THEN [t EXCEPT !.panicked = TRUE]
    ELSE IF vertexChanged(t.obj[o], v)
         THEN [t EXCEPT !.obj[o] = [update(@, 1) EXCEPT !.hasPrev = TRUE, !.prev = v],
                        !.updates = @ \cup {v.Digest}]
         ELSE [t EXCEPT !.obj[o] = [@ EXCEPT !.hasPrev = TRUE, !.prev = v]]

\* lines 192-200: v.intervals[start] = ival, and the merged intervals anew
addInterval(vtx, ival) ==
    [vtx EXCEPT !.intervals = putInterval(@, ival),
                !.mergedIntervals =
                    mergeIntervals(rangeIntervals(putInterval(vtx.intervals, ival)))]

\* mutant of keepsVertex: a later message always replaces the stored one
keepsVertex_Never(prevStarted, v) == FALSE

\* line 188, "allow a duplicate initial vertex that shouldn't reset state":
\* prev != nil && prev.isStarted() && v.Started == nil
keepsVertex(prevStarted, v) == prevStarted /\ v.Started = Nil

\* mutant of listStarted: a vertex that starts again moves to the end
listStarted_Move(list, o, v, prevStarted) ==
    IF v.Started # Nil
    THEN Append(SelectSeq(list, LAMBDA x : x # o), o)
    ELSE list

\* lines 181-186: the vertex enters the display order with its first start
listStarted(list, o, v, prevStarted) ==
    IF v.Started # Nil /\ ~prevStarted THEN Append(list, o) ELSE list

\* lines 182-184, 208-210: "if t.localTimeDiff == 0 { t.localTimeDiff =
\* time.Since(start) }", run when a vertex or group starts
sinceStarted(ltd, starts) == IF starts /\ ltd = 0 THEN ClockAhead ELSE ltd

\* Update, lines 139-167: one vertex message that names a progress group.
\* seen is the list "groups" of the group ids met in this batch.
groupedVertex(t, seen, v) ==
    LET g == v.Group
        grp == IF t.obj[GrpObj(g)].alloc THEN t.obj[GrpObj(g)]
               ELSE withTerm(t, NewGroupObj(g))
        subs == {x \in grp.subVtxs : x.Digest # v.Digest} \cup {v}
    IN [t |-> [t EXCEPT !.obj[GrpObj(g)] = [grp EXCEPT !.subVtxs = subs],
                        !.byDigest = IF t.obj[GrpObj(g)].alloc
                                     THEN [@ EXCEPT ![v.Digest] = GrpObj(g)]
                                     ELSE [@ EXCEPT ![g] = GrpObj(g),
                                                    ![v.Digest] = GrpObj(g)]],
        seen |-> IF \E i \in 1..Len(seen) : seen[i] = g THEN seen
                 ELSE Append(seen, g)]

\* Update, lines 169-202: one vertex message without progress group
plainVertex(t, v) ==
    LET prev == t.byDigest[v.Digest]
        prevStarted == prev # NoObj /\ isStarted(t.obj[prev])
        o == IF prev = NoObj THEN VtxObj(v.Digest) ELSE prev
        t1 == IF prev = NoObj
              THEN [t EXCEPT !.byDigest[v.Digest] = o,
                             !.obj[o] = withTerm(t, NewVertexObj)]
              ELSE t
        t2 == triggerVertexEvent(t1, o, v)
        t3 == [t2 EXCEPT !.vertexes = listStarted(@, o, v, prevStarted),
                         !.localTimeDiff = sinceStarted(@, v.Started # Nil /\ ~prevStarted)]
        t4 == IF ~keepsVertex(prevStarted, v)
              THEN [t3 EXCEPT !.obj[o] = [@ EXCEPT !.hasVertex = TRUE, !.Vertex = v]]
              ELSE t3
        t5 == IF v.Started # Nil
              THEN [t4 EXCEPT !.obj[o] =
                       addInterval(@, Interval(v.Started, v.Completed))]
              ELSE t4
    IN [t5 EXCEPT !.obj[o].jobCached = FALSE]

\* Update, lines 136-202: the body of "for _, v := range s.Vertexes"
vertexStep(t, seen, v) ==
    LET t0 == IF t.startTime = Nil THEN [t EXCEPT !.startTime = v.Started]
              ELSE t
    IN IF v.Group # NoGroup
       THEN groupedVertex(t0, seen, v)
       ELSE [t |-> plainVertex(t0, v), seen |-> seen]

\* Update, lines 135-203: "for _, v := range s.Vertexes"
RECURSIVE vertexLoop(_, _, _, _)
vertexLoop(t, seen, vs, i) ==
    IF i > Len(vs) \/ t.panicked THEN [t |-> t, seen |-> seen]
    ELSE Bind(vertexStep(t, seen, vs[i]),
              LAMBDA n : vertexLoop(n.t, n.seen, vs, i + 1))

\* func equalTimes / func (ival Interval) isEqual(other Interval)
isEqual(ival, other) == ival.start = other.start /\ ival.stop = other.stop

\* vg.intervals[start]; the zero Interval when the map has no such key
intervalAt(m, start) ==
    IF \E x \in m : x.start = start
    THEN CHOOSE x \in m : x.start = start
    ELSE Interval(Nil, Nil)

\* mutant of refreshStart: the visibility is computed afresh on every refresh
refreshStart_Rehide(vg) ==
    [vg |-> [vg EXCEPT !.hidden = TRUE],
     newVtx |-> [vg.Vertex EXCEPT !.Cached = TRUE],
     changed |-> FALSE, newlyStarted |-> FALSE]

\* refresh, lines 538-541: newVtx := *vg.Vertex; newVtx.Cached = true
refreshStart(vg) ==
    [vg |-> vg,
     newVtx |-> [vg.Vertex EXCEPT !.Cached = TRUE],
     changed |-> FALSE, newlyStarted |-> FALSE]

\* refresh, lines 543-560: a member that has started
memberStarted(st, subVtx, alreadyStarted) ==
    [st EXCEPT
        !.changed = @ \/ ~isEqual(Interval(subVtx.Started, subVtx.Completed),
                                  intervalAt(st.vg.intervals, subVtx.Started)),
        !.newlyStarted = @ \/ ~alreadyStarted,
        !.vg = [@ EXCEPT
                   !.intervals =
                       putInterval(@, Interval(subVtx.Started, subVtx.Completed)),
                   !.hidden = IF ~subVtx.Weak THEN FALSE ELSE @]]

\* mutant of memberFlags: the group takes the cached flag of the member read
\* last
memberFlags_LastCached(st, subVtx) ==
    IF st.newVtx.Error = ""
    THEN [st EXCEPT !.newVtx = [@ EXCEPT !.Cached = subVtx.Cached,
                                         !.Error = subVtx.Error]]
    ELSE [st EXCEPT !.newVtx = [@ EXCEPT !.Cached = subVtx.Cached],
                    !.vg = [@ EXCEPT !.hidden = FALSE]]

\* refresh, lines 562-570: cached and error of the group
memberFlags(st, subVtx) ==
    IF st.newVtx.Error = ""
    THEN [st EXCEPT !.newVtx = [@ EXCEPT !.Cached = @ /\ subVtx.Cached,
                                         !.Error = subVtx.Error]]
    ELSE [st EXCEPT !.newVtx = [@ EXCEPT !.Cached = @ /\ subVtx.Cached],
                    !.vg = [@ EXCEPT !.hidden = FALSE]]

\* refresh, lines 543-570: the body of "for _, subVtx := range vg.subVtxs"
refreshMember(st, subVtx, alreadyStarted) ==
    IF subVtx.Started # Nil
    THEN Bind(memberStarted(st, subVtx, alreadyStarted),
              LAMBDA st1 : memberFlags(st1, subVtx))
    ELSE memberFlags(st, subVtx)

\* "for _, subVtx := range vg.subVtxs": the members are visited in the order
\* ord, one of the orders in which the map may be read
RECURSIVE refreshLoop(_, _, _, _)
refreshLoop(st, ord, i, alreadyStarted) ==
    IF i > Len(ord) THEN st
    ELSE IF \E x \in st.vg.subVtxs : x.Digest = ord[i]
         THEN Bind(refreshMember(st,
                                 CHOOSE x \in st.vg.subVtxs : x.Digest = ord[i],
                                 alreadyStarted),
                   LAMBDA st1 : refreshLoop(st1, ord, i + 1, alreadyStarted))
         ELSE refreshLoop(st, ord, i + 1, alreadyStarted)

\* refresh, lines 573-592: what refresh returns, given the loop's result st
refreshResult(vg, st) ==
    LET newlyRevealed == ~st.vg.hidden /\ vg.hidden IN
    [vg |-> [st.vg EXCEPT
                !.Vertex = st.newVtx,
                !.mergedIntervals = mergeIntervals(rangeIntervals(st.vg.intervals))],
     changed |-> \/ st.changed
                 \/ vg.Vertex.Cached # st.newVtx.Cached
                 \/ vg.Vertex.Error # st.newVtx.Error
                 \/ newlyRevealed,
     newlyStarted |-> st.newlyStarted,
     newlyRevealed |-> newlyRevealed]

\* func (vg *vertexGroup) refresh() (changed, newlyStarted, newlyRevealed bool)
refresh(vg, ord) ==
    Bind(refreshLoop(refreshStart(vg), ord, 1, isStarted(vg)),
         LAMBDA st : refreshResult(vg, st))

\* Update, lines 205-222: the body of "for _, groupID := range groups", given
\* what refresh returned
groupStep(t, o, r) ==
    IF r.newlyStarted /\ t.localTimeDiff = 0 /\ Len(r.vg.mergedIntervals) = 0
    THEN [t EXCEPT !.panicked = TRUE]
    ELSE IF r.vg.hidden
    THEN [t EXCEPT !.obj[o] = r.vg,
                   !.localTimeDiff = sinceStarted(@, r.newlyStarted)]
    ELSE [t EXCEPT
             !.obj[o] = [(IF r.changed THEN update(r.vg, 1) ELSE r.vg)
                            EXCEPT !.jobCached = FALSE],
             !.vertexes = IF r.newlyRevealed THEN Append(@, o) ELSE @,
             !.updates = IF r.changed THEN @ \cup {r.vg.Vertex.Digest} ELSE @,
             !.localTimeDiff = sinceStarted(@, r.newlyStarted)]

\* Update, lines 204-223: "for _, groupID := range groups"
RECURSIVE groupLoop(_, _, _, _)
groupLoop(t, seen, i, ord) ==
    IF i > Len(seen) \/ t.panicked THEN t
    ELSE IF ~t.obj[GrpObj(seen[i])].hasVertex THEN [t EXCEPT !.panicked = TRUE]
    ELSE Bind(refresh(t.obj[GrpObj(seen[i])], ord),
              LAMBDA r : Bind(groupStep(t, GrpObj(seen[i]), r),
                              LAMBDA t1 : groupLoop(t1, seen, i + 1, ord)))

\* v.byID[id]; the status objects of a vertex as the set of their values
hasStatus(v, id) == \E x \in v.byID : x.ID = id

statusAt(v, id) == CHOOSE x \in v.byID : x.ID = id

\* Update, lines 229-240: one sub-status s stored on vertex v
statusStep(v, s) ==
    update([v EXCEPT
               !.jobCached = FALSE,
               !.statuses =
                   IF /\ s.Started # Nil
                      /\ (~hasStatus(v, s.ID) \/ statusAt(v, s.ID).Started = Nil)
                   THEN Append(@, s.ID) ELSE @,
               !.byID = {x \in @ : x.ID # s.ID} \cup {s},
               !.statusUpdates = @ \cup {s.ID}], 1)

\* mutant of statusLoop: a sub-status for an unknown digest creates its vertex
RECURSIVE statusLoop_Lazy(_, _, _)
statusLoop_Lazy(t, ss, i) ==
    IF i > Len(ss) \/ t.panicked THEN t
    ELSE IF t.byDigest[ss[i].Vertex] = NoObj
         THEN Bind([t EXCEPT !.byDigest[ss[i].Vertex] = VtxObj(ss[i].Vertex),
                             !.obj[VtxObj(ss[i].Vertex)] =
                                 statusStep(NewVertexObj, ss[i])],
                   LAMBDA t1 : statusLoop_Lazy(t1, ss, i + 1))
    ELSE Bind([t EXCEPT !.obj[t.byDigest[ss[i].Vertex]] = statusStep(@, ss[i]),
                        !.updates = @ \cup
                            {t.obj[t.byDigest[ss[i].Vertex]].Vertex.Digest}],
              LAMBDA t1 : statusLoop_Lazy(t1, ss, i + 1))

\* Update, lines 224-241: "for _, s := range s.Statuses"
RECURSIVE statusLoop(_, _, _)
statusLoop(t, ss, i) ==
    IF i > Len(ss) \/ t.panicked THEN t
    ELSE IF t.byDigest[ss[i].Vertex] = NoObj THEN statusLoop(t, ss, i + 1)
    ELSE IF ~t.obj[t.byDigest[ss[i].Vertex]].hasVertex
         THEN [t EXCEPT !.panicked = TRUE]
    ELSE Bind([t EXCEPT !.obj[t.byDigest[ss[i].Vertex]] = statusStep(@, ss[i]),
                        !.updates = @ \cup
                            {t.obj[t.byDigest[ss[i].Vertex]].Vertex.Digest}],
              LAMBDA t1 : statusLoop(t1, ss, i + 1))

\* mutant of warningLoop: a warning for an unknown digest creates its vertex
RECURSIVE warningLoop_Lazy(_, _, _)
warningLoop_Lazy(t, ws, i) ==
    IF i > Len(ws) \/ t.panicked THEN t
    ELSE IF t.byDigest[ws[i].Vertex] = NoObj
         THEN Bind([t EXCEPT !.byDigest[ws[i].Vertex] = VtxObj(ws[i].Vertex),
                             !.obj[VtxObj(ws[i].Vertex)] =
                                 update([NewVertexObj EXCEPT
                                            !.warnings = <<ws[i]>>], 1)],
                   LAMBDA t1 : warningLoop_Lazy(t1, ws, i + 1))
    ELSE Bind([t EXCEPT !.obj[t.byDigest[ws[i].Vertex]] =
                  update([@ EXCEPT !.warnings = Append(@, ws[i])], 1)],
              LAMBDA t1 : warningLoop_Lazy(t1, ws, i + 1))

\* Update, lines 242-249: "for _, w := range s.Warnings"
RECURSIVE warningLoop(_, _, _)
warningLoop(t, ws, i) ==
    IF i > Len(ws) \/ t.panicked THEN t
    ELSE IF t.byDigest[ws[i].Vertex] = NoObj THEN warningLoop(t, ws, i + 1)
    ELSE Bind([t EXCEPT !.obj[t.byDigest[ws[i].Vertex]] =
                  update([@ EXCEPT !.warnings = Append(@, ws[i])], 1)],
              LAMBDA t1 : warningLoop(t1, ws, i + 1))

\* the separator byte('\n')
NL == "\n"

\* bytes.IndexByte(dt, sep); 0 when sep does not occur (Go: -1)
IndexByte(dt, sep) ==
    IF \E k \in 1..Len(dt) : dt[k] = sep
    THEN CHOOSE k \in 1..Len(dt) : dt[k] = sep /\ \A j \in 1..(k - 1) : dt[j] # sep
    ELSE 0

\* split, lines 414-425; frags are the arguments of the calls of fn so far
RECURSIVE splitLoop(_, _, _)
splitLoop(dt, sep, frags) ==
    IF Len(dt) = 0 THEN [frags |-> frags, complete |-> TRUE]
    ELSE IF IndexByte(dt, sep) = 0
         THEN [frags |-> Append(frags, dt), complete |-> FALSE]
         ELSE splitLoop(SubSeq(dt, IndexByte(dt, sep) + 1, Len(dt)), sep,
                        Append(frags, SubSeq(dt, 1, IndexByte(dt, sep) - 1)))

\* func split(dt []byte, sep byte, fn func([]byte)) bool
split(dt, sep) ==
    IF Len(dt) = 0 THEN [frags |-> <<>>, complete |-> FALSE]
    ELSE splitLoop(dt, sep, <<>>)

\* Update, lines 269-280: a new log line.  The line "<seconds> <dt>" is kept as
\* the seconds, the number of decimals they are printed with, and dt.
newLogLine(v, l, dt) ==
    LET ts == IF isStarted(v) THEN l.Timestamp - mostRecentInterval(v).start ELSE 0
    IN [sec |-> ts,
        prec |-> IF ts < 10 THEN 3 ELSE IF ts < 100 THEN 2 ELSE 1,
        dt |-> dt]

\* strconv.Itoa for n >= 0
RECURSIVE Itoa(_)
Itoa(n) ==
    IF n < 10 THEN SubSeq("0123456789", n + 1, n + 1)
    ELSE Itoa(n \div 10) \o SubSeq("0123456789", (n % 10) + 1, (n % 10) + 1)

\* decimals zeros
Zeros(decimals) == SubSeq("000", 1, decimals)

\* fmt.Sprintf("%.[2]*[1]f", sec, prec) for a whole number of seconds: the
\* sign if negative, the digits, the point and prec zeros
formatSeconds(sec, prec) ==
    (IF sec < 0 THEN "-" ELSE "")
    \o Itoa(IF sec < 0 THEN 0 - sec ELSE sec) \o "." \o Zeros(prec)

\* the seconds prefix of a stored log line, line 279
secondsPrefix(line) == formatSeconds(line.sec, line.prec)

\* Update, lines 266-282: one call of the callback of split, the i-th (from 1)
\* of this chunk; partial is v.logsPartial as the last chunk left it
logFragment(v, l, dt, i, partial) ==
    IF partial /\ Len(v.logs) # 0 /\ i = 1
    THEN [v EXCEPT !.logs[Len(v.logs)].dt = @ \o dt]
    ELSE [v EXCEPT !.logs = Append(@, newLogLine(v, l, dt))]

\* Update, lines 265-283: the calls of the callback of split
RECURSIVE fragmentLoop(_, _, _, _, _)
fragmentLoop(v, l, frags, i, partial) ==
    IF i > Len(frags) THEN v
    ELSE Bind(logFragment(v, l, frags[i], i, partial),
              LAMBDA v1 : fragmentLoop(v1, l, frags, i + 1, partial))

\* the builtins max and min
Max(a, b) == IF a > b THEN a ELSE b

Min(a, b) == IF a < b THEN a ELSE b

\* the pane height without its floor of termHeightMin
paneHeight_NoFloor(height) ==
    Min(termHeightInitial, height - termHeightMin - 1)

\* max(termHeightMin, min(termHeightInitial, height-termHeightMin-1))
paneHeight(height) ==
    Max(termHeightMin, Min(termHeightInitial, height - termHeightMin - 1))

\* Update, lines 257-260: TermHeight after the terminal of v was looked at
resizeHeight(th, v) ==
    IF v.hasTerm /\ v.Term.Width # TermWidth THEN paneHeight(v.Term.Height)
    ELSE th

\* Update, lines 256-263: the chunk is written to the terminal of v, if any
logTerm(v, l, th) ==
    IF v.hasTerm
    THEN [v EXCEPT !.Term = IF @.Width # TermWidth
                            THEN NewVT100(th, TermWidth - TermPad) ELSE @,
                   !.termBytes = @ + Len(l.Data)]
    ELSE v

\* Update, lines 255-286: one log chunk l stored on vertex v; th is
\* TermHeight after line 258
logStep(v, l, th) ==
    Bind(split(l.Data, NL),
         LAMBDA r :
             update([fragmentLoop(logTerm(v, l, th), l, r.frags, 1, v.logsPartial)
                        EXCEPT !.jobCached = FALSE,
                               !.logsPartial = ~r.complete], 1))

\* Update, lines 250-287: "for _, l := range s.Logs"
RECURSIVE logLoop(_, _, _)
logLoop(t, ls, i) ==
    IF i > Len(ls) \/ t.panicked THEN t
    ELSE IF t.byDigest[ls[i].Vertex] = NoObj THEN logLoop(t, ls, i + 1)
    ELSE IF ~t.obj[t.byDigest[ls[i].Vertex]].hasVertex
         THEN [t EXCEPT !.panicked = TRUE]
    ELSE Bind([t EXCEPT !.obj[t.byDigest[ls[i].Vertex]] =
                            logStep(@, ls[i], resizeHeight(t.TermHeight, @)),
                        !.TermHeight =
                            resizeHeight(@, t.obj[t.byDigest[ls[i].Vertex]]),
                        !.updates = @ \cup
                            {t.obj[t.byDigest[ls[i].Vertex]].Vertex.Digest}],
              LAMBDA t1 : logLoop(t1, ls, i + 1))

\* mutant of Update: the log chunks are applied before the vertices
Update_LogsFirst(t, s, ord) ==
    Bind(logLoop(t, s.Logs, 1), LAMBDA t1 :
    Bind(vertexLoop(t1, <<>>, s.Vertexes, 1), LAMBDA r :
    Bind(groupLoop(r.t, r.seen, 1, ord), LAMBDA t2 :
    Bind(statusLoop(t2, s.Statuses, 1), LAMBDA t3 :
         warningLoop(t3, s.Warnings, 1)))))

\* func (t *Trace) Update(s *client.SolveStatus, termWidth int); ord is the
\* order in which this call reads the maps of group members
Update(t, s, ord) ==
    Bind(vertexLoop(t, <<>>, s.Vertexes, 1), LAMBDA r :
    Bind(groupLoop(r.t, r.seen, 1, ord), LAMBDA t2 :
    Bind(statusLoop(t2, s.Statuses, 1), LAMBDA t3 :
    Bind(warningLoop(t3, s.Warnings, 1), LAMBDA t4 :
         logLoop(t4, s.Logs, 1)))))


----------------------------------------------------------------------------
(* DisplayInfo and ErrorLogs *)

\* func addTime(tm *time.Time, d time.Duration) *time.Time
addTime(tm, d) == IF tm = Nil THEN Nil ELSE tm + d

\* context.Canceled.Error()
Canceled == "context canceled"

\* strings.HasSuffix
HasSuffix(str, suffix) ==
    /\ Len(str) >= Len(suffix)
    /\ SubSeq(str, Len(str) - Len(suffix) + 1, Len(str)) = suffix

\* strings.ReplaceAll for a one-byte old
RECURSIVE ReplaceAll(_, _, _)
ReplaceAll(str, old, new) ==
    IF Len(str) = 0 THEN ""
    ELSE (IF SubSeq(str, 1, 1) = old THEN new ELSE SubSeq(str, 1, 1))
         \o ReplaceAll(SubSeq(str, 2, Len(str)), old, new)

\* type Job struct; Vertex is a vertex object or nil (NoObj)
NoStatus == ""

NewJob(name, ivals, completed) ==
    [Name |-> name, Intervals |-> ivals, IsCompleted |-> completed,
     Status |-> NoStatus, HasError |-> FALSE, IsCanceled |-> FALSE,
     Vertex |-> NoObj, ShowTerm |-> FALSE]

\* a *Job: the k-th of the rows DisplayInfo last built for vertex object o
JobRef(o, k) == <<o, k>>

\* the zero DisplayInfo; StartTime Nil stands for time.Now()
NoDisplayInfo ==
    [StartTime |-> Nil, Jobs |-> <<>>, CountTotal |-> 0, CountCompleted |-> 0]

\* DisplayInfo, lines 346-354: the intervals of the row, shifted to local time
shiftIntervals(ivals, ltd) ==
    [i \in 1..Len(ivals) |->
        Interval(addTime(ivals[i].start, ltd), addTime(ivals[i].stop, ltd))]

\* mutant of errorName: only the sentinel itself counts as cancellation
errorName_Exact(v, name) ==
    IF v.Vertex.Error # ""
    THEN IF v.Vertex.Error = Canceled
         THEN "CANCELED " \o name
         ELSE "ERROR " \o name
    ELSE name

\* DisplayInfo, lines 356-368: the name of the primary row
errorName(v, name) ==
    IF v.Vertex.Error # ""
    THEN IF HasSuffix(v.Vertex.Error, Canceled)
         THEN "CANCELED " \o name
         ELSE "ERROR " \o name
    ELSE name

cachedName(v, name) == IF v.Vertex.Cached THEN "CACHED " \o name ELSE name

\* DisplayInfo, lines 341-369: the primary row of vertex object o
primaryJob(t, o) ==
    LET v == t.obj[o] IN
    [NewJob(v.indent \o cachedName(v, errorName(v,
                ReplaceAll(v.Vertex.Name, "\t", " "))),
            mergeIntervals(shiftIntervals(rangeIntervals(v.intervals),
                                          t.localTimeDiff)),
            \A x \in v.intervals : x.stop # Nil)
        EXCEPT !.Vertex = o,
               !.IsCanceled = v.Vertex.Error # ""
                              /\ HasSuffix(v.Vertex.Error, Canceled),
               !.HasError = v.Vertex.Error # ""
                            /\ ~HasSuffix(v.Vertex.Error, Canceled)]

\* "%.2f" of the quotient b / unit: the nearest hundredth.  A quotient half
\* way between two hundredths is rounded as its float64 is; no such count is
\* drawn here.
Fixed2(b, unit) ==
    LET q == (b * 100) \div unit
        h == IF 2 * ((b * 100) % unit) > unit THEN q + 1 ELSE q
    IN Itoa(h \div 100) \o "." \o Itoa((h % 100) \div 10) \o Itoa(h % 10)

\* the decimal units of units.Bytes above the byte
ByteUnits == <<"kB", "MB", "GB">>

\* units.Bytes under "%.2f": whole bytes below 1000, else the count in the
\* largest decimal unit it reaches, with two decimals
RECURSIVE scaleBytes(_, _, _)
scaleBytes(b, baseUnit, i) ==
    IF i < Len(ByteUnits) /\ b >= baseUnit * 1000
    THEN scaleBytes(b, baseUnit * 1000, i + 1)
    ELSE IF i = 0 THEN Itoa(b) \o "B"
    ELSE Fixed2(b, baseUnit) \o ByteUnits[i]

formatBytes(b) == scaleBytes(b, 1, 0)

\* mutant of statusText: the current count alone, whatever the total
statusText_CurrentOnly(s) ==
    IF s.Current # 0 THEN formatBytes(s.Current) ELSE NoStatus

\* DisplayInfo, lines 379-383: the status text
statusText(s) ==
    IF s.Total # 0 THEN formatBytes(s.Current) \o " / " \o formatBytes(s.Total)
    ELSE IF s.Current # 0 THEN formatBytes(s.Current)
    ELSE NoStatus

\* DisplayInfo, lines 371-385: the row of sub-status s
statusJob(t, v, s) ==
    [NewJob(v.indent \o "=> " \o s.ID,
            <<Interval(addTime(s.Started, t.localTimeDiff),
                       addTime(s.Completed, t.localTimeDiff))>>,
            s.Completed # Nil)
        EXCEPT !.Status = statusText(s)]

\* DisplayInfo, lines 387-400: the row of warning w
warningJob(t, v, w) ==
    LET ival == IF isStarted(v) THEN mostRecentInterval(v) ELSE Interval(Nil, Nil)
    IN [NewJob("WARN: " \o w.Short,
               <<Interval(addTime(ival.start, t.localTimeDiff),
                          addTime(ival.stop, t.localTimeDiff))>>,
               FALSE)
           EXCEPT !.IsCanceled = TRUE]

\* DisplayInfo, lines 340-401: the rows built for vertex object o
vertexJobs(t, o) ==
    LET v == t.obj[o] IN
    <<primaryJob(t, o)>>
    \o [i \in 1..Len(v.statuses) |-> statusJob(t, v, statusAt(v, v.statuses[i]))]
    \o [i \in 1..Len(v.warnings) |-> warningJob(t, v, v.warnings[i])]

\* d.Jobs = append(d.Jobs, v.jobs...)
jobRefs(o, n) == [k \in 1..n |-> JobRef(o, k)]

\* mutant of displayStep: the cached branch hands out the primary row only
displayStep_Stale(r, o) ==
    IF r.t.obj[o].jobCached
    THEN [r EXCEPT !.jobs = @ \o jobRefs(o, 1)]
    ELSE IF ~r.t.obj[o].hasVertex THEN [r EXCEPT !.t.panicked = TRUE]
    ELSE Bind(vertexJobs(r.t, o), LAMBDA js :
              [t |-> [r.t EXCEPT !.obj[o] = [@ EXCEPT !.jobs = js,
                                                      !.jobCached = TRUE]],
               jobs |-> r.jobs \o jobRefs(o, Len(js))])

\* DisplayInfo, lines 336-404: one vertex of the display order
displayStep(r, o) ==
    IF r.t.obj[o].jobCached
    THEN [r EXCEPT !.jobs = @ \o jobRefs(o, Len(r.t.obj[o].jobs))]
    ELSE IF ~r.t.obj[o].hasVertex THEN [r EXCEPT !.t.panicked = TRUE]
    ELSE Bind(vertexJobs(r.t, o), LAMBDA js :
              [t |-> [r.t EXCEPT !.obj[o] = [@ EXCEPT !.jobs = js,
                                                      !.jobCached = TRUE]],
               jobs |-> r.jobs \o jobRefs(o, Len(js))])

\* DisplayInfo, lines 335-405: "for _, v := range t.vertexes"
RECURSIVE displayLoop(_, _)
displayLoop(r, i) ==
    IF i > Len(r.t.vertexes) \/ r.t.panicked THEN r
    ELSE Bind(displayStep(r, r.t.vertexes[i]),
              LAMBDA r1 : displayLoop(r1, i + 1))

\* DisplayInfo, lines 324-328: the entries of byDigest that are not counted
uncounted(t, k) ==
    t.obj[t.byDigest[k]].Vertex.Group # NoGroup \/ t.obj[t.byDigest[k]].hidden

\* DisplayInfo, lines 323-333: CountTotal and CountCompleted
countTotal(t) ==
    Cardinality({k \in Keys : t.byDigest[k] # NoObj})
    - Cardinality({k \in Keys : t.byDigest[k] # NoObj /\ uncounted(t, k)})

countCompleted(t) ==
    Cardinality({k \in Keys : /\ t.byDigest[k] # NoObj
                              /\ ~uncounted(t, k)
                              /\ isCompleted(t.obj[t.byDigest[k]])})

\* func (t *Trace) DisplayInfo() (d DisplayInfo)
DisplayInfo(t) ==
    IF \E k \in Keys : t.byDigest[k] # NoObj /\ ~t.obj[t.byDigest[k]].hasVertex
    THEN [t |-> [t EXCEPT !.panicked = TRUE], d |-> NoDisplayInfo]
    ELSE Bind(displayLoop([t |-> t, jobs |-> <<>>], 1), LAMBDA r :
              [t |-> r.t,
               d |-> [StartTime |-> addTime(t.startTime, t.localTimeDiff),
                      Jobs |-> r.jobs,
                      CountTotal |-> countTotal(t),
                      CountCompleted |-> countCompleted(t)]])

\* mutant of errorBlock: only the sentinel itself counts as cancellation
errorBlock_Exact(v) ==
    IF v.Vertex.Error # "" /\ v.Vertex.Error # Canceled
    THEN <<[line |-> "------"], [line |-> " > " \o v.Vertex.Name \o ":"]>>
         \o [i \in 1..Len(v.logs) |-> [log |-> v.logs[i]]]
         \o <<[line |-> "------"]>>
    ELSE <<>>

\* ErrorLogs, lines 294-312: what is printed for one vertex, line by line
errorBlock(v) ==
    IF v.Vertex.Error # "" /\ ~HasSuffix(v.Vertex.Error, Canceled)
    THEN <<[line |-> "------"], [line |-> " > " \o v.Vertex.Name \o ":"]>>
         \o [i \in 1..Len(v.logs) |-> [log |-> v.logs[i]]]
         \o <<[line |-> "------"]>>
    ELSE <<>>

\* ErrorLogs, lines 293-313: "for _, v := range t.vertexes"
RECURSIVE errorLoop(_, _, _)
errorLoop(t, f, i) ==
    IF i > Len(t.vertexes) THEN [panicked |-> FALSE, out |-> f]
    ELSE IF ~t.obj[t.vertexes[i]].hasVertex THEN [panicked |-> TRUE, out |-> f]
    ELSE Bind(f \o errorBlock(t.obj[t.vertexes[i]]),
              LAMBDA f1 : errorLoop(t, f1, i + 1))

\* func (t *Trace) ErrorLogs() string
ErrorLogs(t) == errorLoop(t, <<>>, 1)

----------------------------------------------------------------------------
(* SetupTerminals and wrapHeight *)

\* the Job a *Job points to
JobAt(t, ref) == t.obj[ref[1]].jobs[ref[2]]

\* the rows of j that are not completed
incomplete(t, j) == SelectSeq(j, LAMBDA ref : ~JobAt(t, ref).IsCompleted)

\* wrapHeight, lines 660-665: the rows of wrapped that stay when l incomplete
\* rows were cut
RECURSIVE rewrap(_, _, _, _)
rewrap(t, wrapped, k, l) ==
    IF k > Len(wrapped) THEN <<>>
    ELSE (IF ~JobAt(t, wrapped[k]).IsCompleted \/ l <= 0
          THEN <<wrapped[k]>> ELSE <<>>)
         \o rewrap(t, wrapped, k + 1, l - 1)

\* mutant of wrapAround: the rows pulled back are put behind the kept rows
wrapAround_Behind(wrapped, invisible, rewrapped) ==
    LET freespace == Len(wrapped) - Len(rewrapped)
        lo == Len(invisible) - freespace
    IN IF lo < 0 \/ lo > Len(invisible) THEN [panicked |-> TRUE, jobs |-> <<>>]
       ELSE [panicked |-> FALSE,
             jobs |-> rewrapped \o SubSeq(invisible, lo + 1, Len(invisible))]

\* mutant of wrapAround: every incomplete row that was cut is pulled back
wrapAround_AllBack(wrapped, invisible, rewrapped) ==
    [panicked |-> FALSE, jobs |-> invisible \o rewrapped]

\* wrapHeight, lines 658-669: incomplete rows were cut; invisible[lo:] needs
\* 0 <= lo <= len(invisible)
wrapAround(wrapped, invisible, rewrapped) ==
    LET freespace == Len(wrapped) - Len(rewrapped)
        lo == Len(invisible) - freespace
    IN IF lo < 0 \/ lo > Len(invisible) THEN [panicked |-> TRUE, jobs |-> <<>>]
       ELSE [panicked |-> FALSE,
             jobs |-> SubSeq(invisible, lo + 1, Len(invisible)) \o rewrapped]

\* mutant of wrapHeight: a negative limit is not turned away, and the slice
\* wrapped[len(j)-limit:] is out of range
wrapHeight_NoFloor(t, j, limit) ==
    IF limit < 0 THEN [panicked |-> TRUE, jobs |-> <<>>]
    ELSE IF Len(j) <= limit THEN [panicked |-> FALSE, jobs |-> j]
    ELSE LET wrapped == SubSeq(j, Len(j) - limit + 1, Len(j))
             invisible == incomplete(t, SubSeq(j, 1, Len(j) - limit))
         IN IF Len(invisible) = 0 THEN [panicked |-> FALSE, jobs |-> wrapped]
            ELSE wrapAround(wrapped, invisible,
                            rewrap(t, wrapped, 1, Len(invisible)))

\* func wrapHeight(j []*Job, limit int) []*Job
wrapHeight(t, j, limit) ==
    IF limit < 0 THEN [panicked |-> FALSE, jobs |-> <<>>]
    ELSE IF Len(j) <= limit THEN [panicked |-> FALSE, jobs |-> j]
    ELSE LET wrapped == SubSeq(j, Len(j) - limit + 1, Len(j))
             invisible == incomplete(t, SubSeq(j, 1, Len(j) - limit))
         IN IF Len(invisible) = 0 THEN [panicked |-> FALSE, jobs |-> wrapped]
            ELSE wrapAround(wrapped, invisible,
                            rewrap(t, wrapped, 1, Len(invisible)))

\* mutant of isCandidate: every running row of a vertex may get a terminal
isCandidate_AnyRunning(t, ref) ==
    /\ JobAt(t, ref).Vertex # NoObj
    /\ ~JobAt(t, ref).IsCompleted

\* SetupTerminals, lines 610-613: the rows that may get a terminal
isCandidate(t, ref) ==
    /\ JobAt(t, ref).Vertex # NoObj
    /\ t.obj[JobAt(t, ref).Vertex].termBytes > 0
    /\ ~JobAt(t, ref).IsCompleted

\* mutant of score: the bytes only, whatever was shown before
score_BytesOnly(t, ref) == t.obj[JobAt(t, ref).Vertex].termBytes

\* SetupTerminals, lines 619-620: termBytes + TermCount*50
score(t, ref) ==
    t.obj[JobAt(t, ref).Vertex].termBytes + t.obj[JobAt(t, ref).Vertex].TermCount * 50

\* sort.Slice on a short slice is an insertion sort: x moves in front of the
\* sorted rows it is less than, that is, whose score is below its own
RECURSIVE insertByScore(_, _, _)
insertByScore(t, sorted, x) ==
    IF Len(sorted) = 0 THEN <<x>>
    ELSE IF score(t, x) > score(t, sorted[Len(sorted)])
         THEN Append(insertByScore(t, SubSeq(sorted, 1, Len(sorted) - 1), x),
                     sorted[Len(sorted)])
         ELSE Append(sorted, x)

RECURSIVE sortByScore(_, _, _)
sortByScore(t, cands, n) ==
    IF n = 0 THEN <<>>
    ELSE insertByScore(t, sortByScore(t, cands, n - 1), cands[n])

\* SetupTerminals, lines 629-633: the terminals shown, best score first, while
\* there is room; used[o] is what Term.UsedHeight() returns for vertex o
RECURSIVE grantLoop(_, _, _, _, _)
grantLoop(r, cands, i, termLimit, used) ==
    IF ~(r.numFree > termLimit /\ i <= Len(cands)) \/ r.t.panicked THEN r
    ELSE IF ~r.t.obj[JobAt(r.t, cands[i]).Vertex].hasTerm
         THEN [r EXCEPT !.t.panicked = TRUE]
    ELSE Bind([t |-> [r.t EXCEPT !.obj[cands[i][1]].jobs[cands[i][2]].ShowTerm = TRUE],
               numFree |-> r.numFree - termLimit,
               numToHide |-> r.numToHide + used[JobAt(r.t, cands[i]).Vertex]],
              LAMBDA r1 : grantLoop(r1, cands, i + 1, termLimit, used))

\* SetupTerminals, lines 635-637
setupResult(r, jobs, height, all) ==
    IF r.t.panicked \/ all THEN [t |-> r.t, jobs |-> jobs]
    ELSE Bind(wrapHeight(r.t, jobs, height - 2 - r.numToHide), LAMBDA w :
              [t |-> [r.t EXCEPT !.panicked = w.panicked], jobs |-> w.jobs])

\* func SetupTerminals(jobs []*Job, height int, all bool) []*Job
SetupTerminals(t, jobs, height, all, used) ==
    Bind(SelectSeq(jobs, LAMBDA ref : isCandidate(t, ref)), LAMBDA cands :
    Bind(sortByScore(t, cands, Len(cands)), LAMBDA sorted :
    Bind(grantLoop([t |-> [t EXCEPT !.TermHeight = paneHeight(height)],
                    numFree |-> height - 2 - Len(incomplete(t, jobs)),
                    numToHide |-> 0],
                   sorted, 1, paneHeight(height) + 3, used), LAMBDA r :
         setupResult(r, jobs, height, all))))

\* model.View, driver.go lines 205-256: the rows are drawn; a row with a
\* terminal has it drawn, counted and taken back
RECURSIVE renderTerms(_, _, _)
renderTerms(t, jobs, i) ==
    IF i > Len(jobs) \/ t.panicked THEN t
    ELSE IF Len(JobAt(t, jobs[i]).Intervals) = 0 \/ ~JobAt(t, jobs[i]).ShowTerm
         THEN renderTerms(t, jobs, i + 1)
    ELSE IF JobAt(t, jobs[i]).Vertex = NoObj
         THEN [t EXCEPT !.panicked = TRUE]
    ELSE Bind([t EXCEPT !.obj[jobs[i][1]] =
                            [@ EXCEPT !.TermCount = @ + 1,
                                      !.jobs[jobs[i][2]].ShowTerm = FALSE]],
              LAMBDA t1 : renderTerms(t1, jobs, i + 1))

----------------------------------------------------------------------------
(* The Update call as an action, and the batches the specifications draw *)

\* client.SolveStatus{Vertexes, Statuses, Logs, Warnings}
Batch(vs, ss, ws, ls) ==
    [Vertexes |-> vs, Statuses |-> ss, Warnings |-> ws, Logs |-> ls]

\* a message for a vertex outside any progress group
PlainMsg(d, n, st, c, ca, e) ==
    [Digest |-> d, Name |-> n, Started |-> st, Completed |-> c, Cached |-> ca,
     Error |-> e, Group |-> NoGroup, Weak |-> FALSE]

\* a message for a member of progress group g
GroupMsg(d, st, c, ca, e, g, w) ==
    [Digest |-> d, Name |-> d, Started |-> st, Completed |-> c, Cached |-> ca,
     Error |-> e, Group |-> g, Weak |-> w]

\* client.VertexStatus
StatusMsg(d, id, st, c, cur, tot) ==
    [Vertex |-> d, ID |-> id, Started |-> st, Completed |-> c,
     Current |-> cur, Total |-> tot]

\* client.VertexWarning
WarningMsg(d, short) == [Vertex |-> d, Short |-> short]

\* client.VertexLog
LogMsg(d, ts, data) == [Vertex |-> d, Timestamp |-> ts, Data |-> data]

\* the orders in which one Update call may read the members of a group
Orders == {<<"d1", "d2">>, <<"d2", "d1">>}

OrdersFor(s) ==
    IF \E i \in 1..Len(s.Vertexes) : s.Vertexes[i].Group # NoGroup
    THEN Orders
    ELSE {<<"d1", "d2">>}

\* the log bytes of the batch that Update stores, appended per vertex object
RECURSIVE streamAfter(_, _, _, _)
streamAfter(str, bd, ls, i) ==
    IF i > Len(ls) THEN str
    ELSE LET o == bd[ls[i].Vertex] IN
         IF o = NoObj THEN streamAfter(str, bd, ls, i + 1)
         ELSE streamAfter([str EXCEPT ![o] = @ \o ls[i].Data], bd, ls, i + 1)

\* the Trace the calls act on
TheTrace ==
    [TraceOf(startTime, vertexes, byDigest, obj, updates, localTimeDiff,
             modeConsole, TermHeight) EXCEPT !.panicked = panicked]

\* t.Update(s, termWidth): what the call does to the Trace
UpdateStep(s) ==
    \E ord \in OrdersFor(s) :
        \E r \in {Update(TheTrace, s, ord)} :
           /\ ~panicked
           /\ startTime' = r.startTime
           /\ vertexes' = r.vertexes
           /\ byDigest' = r.byDigest
           /\ obj' = r.obj
           /\ updates' = r.updates
           /\ localTimeDiff' = r.localTimeDiff
           /\ TermHeight' = r.TermHeight
           /\ panicked' = r.panicked
           /\ batch' = s
           /\ nUpdates' = nUpdates + 1
           /\ stream' = streamAfter(stream, r.byDigest, s.Logs, 1)
           /\ UNCHANGED <<mergeVars, modeConsole, viewVars>>

\* one call t.Update(s, termWidth) outside any build
UpdateCall(s) == UpdateStep(s) /\ UNCHANGED buildVars

\* no artifact (a nil *Artifact)
NoArtifact == [Name |-> "", Digest |-> ""]

\* the build variables where Builder.Build is not called
NoBuild ==
    /\ buildpc = "idle"
    /\ rpcpc = "done"
    /\ drainpc = "done"
    /\ statusChan = "closed"
    /\ recvd = <<>>
    /\ solveErr = ""
    /\ gctx = FALSE
    /\ errgrp = ""
    /\ result = [artifact |-> NoArtifact, err |-> ""]
    /\ sent = <<>>
    /\ calls = <<>>
    /\ active = 0

\* the state after NewTrace(mc), before any call
TraceStart(mc) ==
    /\ startTime = NewTrace(mc).startTime
    /\ vertexes = NewTrace(mc).vertexes
    /\ byDigest = NewTrace(mc).byDigest
    /\ obj = NewTrace(mc).obj
    /\ updates = NewTrace(mc).updates
    /\ localTimeDiff = NewTrace(mc).localTimeDiff
    /\ modeConsole = NewTrace(mc).modeConsole
    /\ TermHeight = NewTrace(mc).TermHeight
    /\ panicked = NewTrace(mc).panicked
    /\ dinfo = NoDisplayInfo
    /\ rows = <<>>
    /\ errorLogs = <<>>

\* NewTrace(false), as the plain driver calls it
TraceInit ==
    /\ TraceStart(FALSE)
    /\ batch = Batch(<<>>, <<>>, <<>>, <<>>)
    /\ nUpdates = 0
    /\ stream = [o \in ObjIds |-> <<>>]

Init ==
    /\ TraceInit
    /\ mInput = <<>>
    /\ mOut = <<>>
    /\ mOut2 = <<>>
    /\ mpc = "idle"
    /\ NoBuild

\* Spec: batches of one vertex message.  A vertex outside any group comes
\* with or without start (two start times), with or without completion, and
\* with one of two settings of name, cached and error; a member of group g1
\* comes with or without start.
LifecycleBatches ==
    {Batch(<<PlainMsg(d, p[1], st, c, p[2], p[3])>>, <<>>, <<>>, <<>>) :
        d \in Digests, st \in {Nil, 1, 2}, c \in {Nil, 3},
        p \in {<<"build", FALSE, "">>, <<"rebuild", TRUE, "failed">>}}
    \cup
    {Batch(<<GroupMsg(d, st, Nil, FALSE, "", "g1", FALSE)>>, <<>>, <<>>, <<>>) :
        d \in Digests, st \in {Nil, 1}}

UpdateLifecycle ==
    /\ nUpdates < MaxUpdates
    /\ \E s \in LifecycleBatches : UpdateCall(s)

Next == UpdateLifecycle

Spec == Init /\ [][Next]_vars

\* SpecGroup: batches of one message for a member of group g1, weak or not,
\* started or not, cached or not, with or without error
GroupBatches ==
    {Batch(<<GroupMsg(d, st, Nil, ca, e, "g1", w)>>, <<>>, <<>>, <<>>) :
        d \in Digests, st \in {Nil, 1}, ca \in BOOLEAN, e \in {"", "failed"},
        w \in BOOLEAN}

UpdateGroup ==
    /\ nUpdates < MaxGroupUpdates
    /\ \E s \in GroupBatches : UpdateCall(s)

GroupNext == UpdateGroup

SpecGroup == Init /\ [][GroupNext]_vars

\* SpecSections: batches with up to one entry in each of the four sections;
\* the sub-status, the warning and the log chunk are for digest d1
Optional(x) == {<<>>, <<x>>}

SectionBatches ==
    {Batch(vs, ss, ws, ls) :
        vs \in {<<>>} \cup
               {<<PlainMsg(d, "build", st, Nil, FALSE, "")>> :
                    d \in Digests, st \in {Nil, 1, 2}},
        ss \in Optional(StatusMsg("d1", "fetch", 1, Nil, 0, 0)),
        ws \in Optional(WarningMsg("d1", "deprecated")),
        ls \in Optional(LogMsg("d1", 3, <<"x", NL>>))}

UpdateSections ==
    /\ nUpdates < MaxSectionUpdates
    /\ \E s \in SectionBatches : UpdateCall(s)

SectionsNext == UpdateSections

SpecSections == Init /\ [][SectionsNext]_vars

\* SpecLog: the first batch starts vertex d1, and every batch brings it one
\* log chunk: any string of at most MaxChunk bytes, each "a" or a newline
LogBatches ==
    {Batch(IF nUpdates = 0
           THEN <<PlainMsg("d1", "build", 1, Nil, FALSE, "")>> ELSE <<>>,
           <<>>, <<>>, <<LogMsg("d1", 2, data)>>) :
        data \in SeqsUpTo({"a", NL}, MaxChunk)}

UpdateLog ==
    /\ nUpdates < MaxLogUpdates
    /\ \E s \in LogBatches : UpdateCall(s)

LogNext == UpdateLog

SpecLog == Init /\ [][LogNext]_vars

\* the timestamps of the log chunks of SpecStamps, in seconds; d1 starts at 1
LogStamps == {0, 2, 11, 101, 1001}

\* SpecStamps: the first batch starts vertex d1 at 1, and every batch brings
\* it one complete log line at one of the timestamps LogStamps
StampBatches ==
    {Batch(IF nUpdates = 0
           THEN <<PlainMsg("d1", "build", 1, Nil, FALSE, "")>> ELSE <<>>,
           <<>>, <<>>, <<LogMsg("d1", ts, <<"a", NL>>)>>) :
        ts \in LogStamps}

UpdateStamps ==
    /\ nUpdates < MaxStampUpdates
    /\ \E s \in StampBatches : UpdateCall(s)

StampsNext == UpdateStamps

SpecStamps == Init /\ [][StampsNext]_vars

\* SpecMixed: batches of one vertex message without error, for a digest
\* reported now inside group g1 (weak or not), now outside any group
MixedBatches ==
    {Batch(<<PlainMsg(d, "build", st, Nil, ca, "")>>, <<>>, <<>>, <<>>) :
        d \in Digests, st \in {Nil, 1}, ca \in BOOLEAN}
    \cup
    {Batch(<<GroupMsg(d, st, Nil, ca, "", "g1", w)>>, <<>>, <<>>, <<>>) :
        d \in Digests, st \in {Nil, 1}, ca \in BOOLEAN, w \in BOOLEAN}

UpdateMixed ==
    /\ nUpdates < MaxMixedUpdates
    /\ \E s \in MixedBatches : UpdateCall(s)

MixedNext == UpdateMixed

SpecMixed == Init /\ [][MixedNext]_vars

\* one call t.DisplayInfo()
DisplayInfoCall ==
    /\ ~panicked
    /\ \E r \in {DisplayInfo(TheTrace)} :
          /\ obj' = r.t.obj
          /\ panicked' = r.t.panicked
          /\ dinfo' = r.d
    /\ UNCHANGED <<mergeVars, startTime, vertexes, byDigest, updates,
                   localTimeDiff, modeConsole, TermHeight, rows, errorLogs,
                   batch, nUpdates, stream, buildVars>>

\* one call t.ErrorLogs()
ErrorLogsCall ==
    /\ ~panicked
    /\ \E r \in {ErrorLogs(TheTrace)} :
          /\ panicked' = r.panicked
          /\ errorLogs' = r.out
    /\ UNCHANGED <<mergeVars, startTime, vertexes, byDigest, obj, updates,
                   localTimeDiff, modeConsole, TermHeight, dinfo, rows,
                   batch, nUpdates, stream, buildVars>>

\* the heights SetupTerminals is called with: negative, zero, too small for
\* the rows, large enough for a terminal pane
Heights == {-1, 0, 3, 13}

\* what Term.UsedHeight() may return for the terminals of one call, where
\* some row may get a terminal
UsedHeights == {0, 6}

UsedHeightsFor(t, jobs) ==
    IF \E i \in 1..Len(jobs) : isCandidate(t, jobs[i]) THEN UsedHeights ELSE {0}

\* one call SetupTerminals(d.Jobs, height, all) on the rows DisplayInfo
\* returned last; the rows returned are kept by value
SetupTerminalsCall ==
    /\ ~panicked
    /\ \E height \in Heights, all \in BOOLEAN,
          u \in UsedHeightsFor(TheTrace, dinfo.Jobs) :
          \E r \in {SetupTerminals(TheTrace, dinfo.Jobs, height, all,
                                   [o \in ObjIds |-> u])} :
             /\ obj' = r.t.obj
             /\ TermHeight' = r.t.TermHeight
             /\ panicked' = r.t.panicked
             /\ rows' = [i \in 1..Len(r.jobs) |-> JobAt(r.t, r.jobs[i])]
    /\ UNCHANGED <<mergeVars, startTime, vertexes, byDigest, updates,
                   localTimeDiff, modeConsole, dinfo, errorLogs,
                   batch, nUpdates, stream, buildVars>>

\* NewTrace(true) as the console driver, NewTrace(false) as the plain driver
\* calls it
ViewInit ==
    /\ \E mc \in BOOLEAN : TraceStart(mc)
    /\ batch = Batch(<<>>, <<>>, <<>>, <<>>)
    /\ nUpdates = 0
    /\ stream = [o \in ObjIds |-> <<>>]
    /\ mInput = <<>>
    /\ mOut = <<>>
    /\ mOut2 = <<>>
    /\ mpc = "idle"
    /\ NoBuild

\* error strings: none, a failure, the cancellation sentinel, an error that
\* wraps it
Errors == {"", "failed", Canceled, "rpc error: " \o Canceled}

\* SpecRows: batches of one message for digest d1: a vertex message with any
\* of the error strings, cached or not, or a sub-status with or without
\* start, or a warning; DisplayInfo is called in between
RowBatches ==
    {Batch(<<PlainMsg("d1", "build", st, c, ca, e)>>, <<>>, <<>>, <<>>) :
        st \in {Nil, 1}, c \in {Nil, 3}, ca \in BOOLEAN, e \in Errors}
    \cup
    {Batch(<<>>, <<StatusMsg("d1", "fetch", st, Nil, 0, 0)>>, <<>>, <<>>) :
        st \in {Nil, 1}}
    \cup
    {Batch(<<>>, <<>>, <<WarningMsg("d1", "deprecated")>>, <<>>)}

UpdateRows ==
    /\ nUpdates < MaxRowUpdates
    /\ \E s \in RowBatches : UpdateCall(s)

RowsNext == UpdateRows \/ DisplayInfoCall

SpecRows == Init /\ [][RowsNext]_vars

\* SpecSticky: batches with one message for a member of group g1, not weak
\* and not started, with no error or one of two errors; the message comes
\* alone or after a message that reports d1 outside any group, without error
StickyBatches ==
    {Batch(vs \o <<GroupMsg(d, Nil, Nil, FALSE, e, "g1", FALSE)>>, <<>>, <<>>, <<>>) :
        vs \in Optional(PlainMsg("d1", "d1", Nil, Nil, FALSE, "")),
        d \in Digests, e \in {"", "failed", "other"}}

UpdateSticky ==
    /\ nUpdates < MaxStickyUpdates
    /\ \E s \in StickyBatches : UpdateCall(s)

StickyNext == UpdateSticky

SpecSticky == Init /\ [][StickyNext]_vars

\* SpecRepeat: the first batch starts vertex d1, and every batch brings its
\* sub-status "fetch", with or without start, with or without completion,
\* at 0 or 512 bytes; DisplayInfo is called in between
RepeatBatches ==
    {Batch(IF nUpdates = 0
           THEN <<PlainMsg("d1", "build", 1, Nil, FALSE, "")>> ELSE <<>>,
           <<StatusMsg("d1", "fetch", st, c, cur, 0)>>, <<>>, <<>>) :
        st \in {Nil, 1}, c \in {Nil, 2}, cur \in {0, 512}}

UpdateRepeat ==
    /\ nUpdates < MaxRepeatUpdates
    /\ \E s \in RepeatBatches : UpdateCall(s)

RepeatNext == UpdateRepeat \/ DisplayInfoCall

SpecRepeat == Init /\ [][RepeatNext]_vars

\* SpecView: batches of one message: a vertex outside any group (with or
\* without start, completion, error), a member of group g1 (weak or not, with
\* or without start), a sub-status, a warning or a log chunk for d1; the
\* calls of the driver's view in between, in any order
ViewBatches ==
    {Batch(<<PlainMsg(d, "build", st, c, FALSE, e)>>, <<>>, <<>>, <<>>) :
        d \in Digests, st \in {Nil, 1}, c \in {Nil, 3}, e \in {"", "failed"}}
    \cup
    {Batch(<<GroupMsg(d, st, Nil, FALSE, "", "g1", w)>>, <<>>, <<>>, <<>>) :
        d \in Digests, st \in {Nil, 1}, w \in BOOLEAN}
    \cup
    {Batch(<<>>, <<StatusMsg("d1", "fetch", 1, Nil, 0, 0)>>, <<>>, <<>>),
     Batch(<<>>, <<>>, <<WarningMsg("d1", "deprecated")>>, <<>>),
     Batch(<<>>, <<>>, <<>>, <<LogMsg("d1", 2, <<"x", NL>>)>>)}

UpdateView ==
    /\ nUpdates < MaxViewUpdates
    /\ \E s \in ViewBatches : UpdateCall(s)

ViewNext == UpdateView \/ DisplayInfoCall \/ SetupTerminalsCall \/ ErrorLogsCall

SpecView == ViewInit /\ [][ViewNext]_vars

\* SpecErrors: batches of one message: a vertex outside any group, named
\* after its digest, with or without start and with any of the error
\* strings, or a log chunk for d1; ErrorLogs is called in between
ErrorBatches ==
    {Batch(<<PlainMsg(d, d, st, Nil, FALSE, e)>>, <<>>, <<>>, <<>>) :
        d \in Digests, st \in {Nil, 1}, e \in Errors}
    \cup
    {Batch(<<>>, <<>>, <<>>, <<LogMsg("d1", 2, <<"x", NL>>)>>)}

UpdateErrors ==
    /\ nUpdates < MaxErrorUpdates
    /\ \E s \in ErrorBatches : UpdateCall(s)

ErrorsNext == UpdateErrors \/ ErrorLogsCall

SpecErrors == Init /\ [][ErrorsNext]_vars

\* SpecStatus: batches of one message for digest d1: a vertex message for
\* "v1" with or without start and completion, cached or not; a started
\* sub-status "fetch" with a current count of 0 or 512 and a total of 0 or
\* 1024; a log chunk; DisplayInfo is called in between
StatusBatches ==
    {Batch(<<PlainMsg("d1", "v1", st, c, ca, "")>>, <<>>, <<>>, <<>>) :
        st \in {Nil, 1}, c \in {Nil, 3}, ca \in BOOLEAN}
    \cup
    {Batch(<<>>, <<StatusMsg("d1", "fetch", 2, Nil, cur, tot)>>, <<>>, <<>>) :
        cur \in {0, 512}, tot \in {0, 1024}}
    \cup
    {Batch(<<>>, <<>>, <<>>, <<LogMsg("d1", 2, <<"x", NL>>)>>)}

UpdateStatus ==
    /\ nUpdates < MaxStatusUpdates
    /\ \E s \in StatusBatches : UpdateCall(s)

StatusNext == UpdateStatus \/ DisplayInfoCall

SpecStatus == Init /\ [][StatusNext]_vars

\* the heights of SpecPanes: negative, too small for the rows, room for no
\* pane, for one pane, for two panes
PaneHeights == {-1, 3, 4, 14, 24}

\* one round of the view: DisplayInfo, SetupTerminals on its rows, and the
\* drawing of the rows returned; the rows returned are kept by value, as
\* SetupTerminals returned them
PaneCall(all) ==
    /\ ~panicked
    /\ \A o \in ObjIds : obj[o].TermCount <= MaxReveals
    /\ \E height \in PaneHeights :
       \E r0 \in {DisplayInfo(TheTrace)} :
       \E u \in UsedHeightsFor(r0.t, r0.d.Jobs) :
       \E r1 \in {SetupTerminals(r0.t, r0.d.Jobs, height, all,
                                 [o \in ObjIds |-> u])} :
       \E t2 \in {renderTerms(r1.t, r1.jobs, 1)} :
          /\ obj' = t2.obj
          /\ TermHeight' = t2.TermHeight
          /\ panicked' = t2.panicked
          /\ dinfo' = r0.d
          /\ rows' = [i \in 1..Len(r1.jobs) |-> JobAt(r1.t, r1.jobs[i])]
    /\ UNCHANGED <<mergeVars, startTime, vertexes, byDigest, updates,
                   localTimeDiff, modeConsole, errorLogs,
                   batch, nUpdates, stream, buildVars>>

\* the round of model.View, which asks for all rows
ViewCall == PaneCall(TRUE)

\* the round of a caller that asks for the rows that fit
TrimCall == PaneCall(FALSE)

\* SpecPanes, in console mode: batches for one vertex: the start of d1, with
\* none of its sub-statuses, with "b" (started and completed) or with "a"
\* (started) and "b"; or the start of d2, completed or not; each with or
\* without a log chunk for the vertex (one byte for d1, two bytes for d2);
\* rounds of the view in between
PaneLogs(d) ==
    {<<>>, <<LogMsg(d, 2, IF d = "d1" THEN <<"x">> ELSE <<"x", NL>>)>>}

PaneStatuses ==
    {<<>>,
     <<StatusMsg("d1", "b", 1, 3, 0, 0)>>,
     <<StatusMsg("d1", "a", 1, Nil, 0, 0), StatusMsg("d1", "b", 1, 3, 0, 0)>>}

PaneBatches ==
    {Batch(<<PlainMsg("d1", "d1", 1, Nil, FALSE, "")>>, ss, <<>>, ls) :
        ss \in PaneStatuses, ls \in PaneLogs("d1")}
    \cup
    {Batch(<<PlainMsg("d2", "d2", 1, c, FALSE, "")>>, <<>>, <<>>, ls) :
        c \in {Nil, 3}, ls \in PaneLogs("d2")}

PaneInit ==
    /\ TraceStart(TRUE)
    /\ batch = Batch(<<>>, <<>>, <<>>, <<>>)
    /\ nUpdates = 0
    /\ stream = [o \in ObjIds |-> <<>>]
    /\ mInput = <<>>
    /\ mOut = <<>>
    /\ mOut2 = <<>>
    /\ mpc = "idle"
    /\ NoBuild

UpdatePanes ==
    /\ nUpdates < MaxPaneUpdates
    /\ \E s \in PaneBatches : UpdateCall(s)

PanesNext == UpdatePanes \/ ViewCall \/ TrimCall

SpecPanes == PaneInit /\ [][PanesNext]_vars

----------------------------------------------------------------------------
(* The merge specification: mergeIntervals applied to every bounded slice,  *)
(* and then to its own result                                              *)

MergeInit ==
    /\ TraceInit
    /\ mInput \in SeqsUpTo(Intervals, MaxIvals)
    /\ mOut = <<>>
    /\ mOut2 = <<>>
    /\ mpc = "input"
    /\ NoBuild

Merge ==
    /\ mpc = "input"
    /\ mOut' = mergeIntervals(mInput)
    /\ mpc' = "merged"
    /\ UNCHANGED <<mInput, mOut2>>
    /\ UNCHANGED <<traceVars, viewVars, batch, nUpdates, stream, buildVars>>

Remerge ==
    /\ mpc = "merged"
    /\ mOut2' = mergeIntervals(mOut)
    /\ mpc' = "remerged"
    /\ UNCHANGED <<mInput, mOut>>
    /\ UNCHANGED <<traceVars, viewVars, batch, nUpdates, stream, buildVars>>

MergeNext == Merge \/ Remerge

SpecMerge == MergeInit /\ [][MergeNext]_vars

----------------------------------------------------------------------------
(* Builder.Build and Builder.BuildOCI (build.go lines 531-565 and 633-668, *)
(* the same code): the goroutine of Solve and the goroutine that passes    *)
(* the statuses to fn, joined by an errgroup.  fn is BuildStatus of the    *)
(* plain driver, which calls Update.  client.Solve is the build engine's:  *)
(* it sends statuses on statusChan and closes it before it returns.        *)

\* the statuses the engine may send: d1 started, d1 completed, a log line
BuildMsgs ==
    {Batch(<<PlainMsg("d1", "build", 1, c, FALSE, "")>>, <<>>, <<>>, <<>>) :
        c \in {Nil, 2}}
    \cup {Batch(<<>>, <<>>, <<>>, <<LogMsg("d1", 2, <<"a", NL>>)>>)}

\* the errors Solve may return; "" is nil
SolveErrors == {"solve failed", Canceled}

\* resp.ExporterResponse of a Solve that succeeded, as Build returns it
Built == [Name |-> "image", Digest |-> "sha256:1"]

\* Build at errgrp.Wait(), both goroutines started, nothing sent
BuildInit ==
    /\ TraceInit
    /\ mInput = <<>>
    /\ mOut = <<>>
    /\ mOut2 = <<>>
    /\ mpc = "idle"
    /\ buildpc = "wait"
    /\ rpcpc = "solve"
    /\ drainpc = "recv"
    /\ statusChan = "open"
    /\ recvd = <<>>
    /\ solveErr = ""
    /\ gctx = FALSE
    /\ errgrp = ""
    /\ result = [artifact |-> NoArtifact, err |-> ""]
    /\ sent = <<>>
    /\ calls = <<>>
    /\ active = 0

\* the loop throws away what it has received (not the code)
afterRecv_Discard(ok) == IF ok THEN "recv" ELSE "done"

\* lines 545-552: ss, ok := <-statusChan; if !ok { return nil }; fn(ss)
afterRecv(ok) == IF ok THEN "fn" ELSE "done"

\* Wait returns when the goroutine of Solve has finished (not the code)
waitOver_RpcOnly(r, d) == r = "done"

\* errgroup.Wait: wg.Wait() returns when both goroutines have finished
waitOver(r, d) == r = "done" /\ d = "done"

\* Solve sends a status: the channel is unbuffered, so the send completes
\* when the loop, waiting at its receive, takes the status
Send ==
    /\ buildpc = "wait" /\ rpcpc = "solve" /\ drainpc = "recv"
    /\ statusChan = "open"
    /\ Len(sent) < MaxSends
    /\ \E m \in BuildMsgs :
          /\ sent' = Append(sent, m)
          /\ recvd' = <<m>>
    /\ drainpc' = afterRecv(TRUE)
    /\ UNCHANGED <<buildpc, rpcpc, statusChan, solveErr, gctx, errgrp, result,
                   calls, active>>
    /\ UNCHANGED <<mergeVars, traceVars, viewVars, batch, nUpdates, stream>>

\* line 540: Solve returns, with or without error, having closed statusChan
SolveReturn ==
    /\ buildpc = "wait" /\ rpcpc = "solve"
    /\ \E e \in SolveErrors \cup {""} : solveErr' = e
    /\ statusChan' = "closed"
    /\ rpcpc' = "returned"
    /\ UNCHANGED <<buildpc, drainpc, recvd, gctx, errgrp, result, sent, calls,
                   active>>
    /\ UNCHANGED <<mergeVars, traceVars, viewVars, batch, nUpdates, stream>>

\* lines 537-543 and errgroup.Go: the function returns; its error, if it is
\* the first, is recorded and the group context cancelled
RpcDone ==
    /\ buildpc = "wait" /\ rpcpc = "returned"
    /\ rpcpc' = "done"
    /\ errgrp' = IF solveErr # "" /\ errgrp = "" THEN solveErr ELSE errgrp
    /\ gctx' = (gctx \/ solveErr # "")
    /\ UNCHANGED <<buildpc, drainpc, statusChan, recvd, solveErr, result, sent,
                   calls, active>>
    /\ UNCHANGED <<mergeVars, traceVars, viewVars, batch, nUpdates, stream>>

\* lines 547-550: the receive finds statusChan closed and the loop returns nil
DrainClosed ==
    /\ buildpc = "wait" /\ drainpc = "recv"
    /\ statusChan = "closed"
    /\ drainpc' = afterRecv(FALSE)
    /\ UNCHANGED <<buildpc, rpcpc, statusChan, recvd, solveErr, gctx, errgrp,
                   result, sent, calls, active>>
    /\ UNCHANGED <<mergeVars, traceVars, viewVars, batch, nUpdates, stream>>

\* line 552: fn(ss) is called
FnBegin ==
    /\ buildpc = "wait" /\ drainpc = "fn"
    /\ drainpc' = "infn"
    /\ calls' = Append(calls, recvd[1])
    /\ active' = active + 1
    /\ UNCHANGED <<buildpc, rpcpc, statusChan, recvd, solveErr, gctx, errgrp,
                   result, sent>>
    /\ UNCHANGED <<mergeVars, traceVars, viewVars, batch, nUpdates, stream>>

\* plainCallbacks.BuildStatus, driver.go lines 383-399: fn calls Update and
\* returns; the loop goes back to its receive
FnEnd ==
    /\ buildpc = "wait" /\ drainpc = "infn"
    /\ UpdateStep(recvd[1])
    /\ drainpc' = "recv"
    /\ recvd' = <<>>
    /\ active' = active - 1
    /\ UNCHANGED <<buildpc, rpcpc, statusChan, solveErr, gctx, errgrp, result,
                   sent, calls>>

\* the caller cancels the context Build was given, and gctx with it
Cancel ==
    /\ buildpc = "wait" /\ ~gctx
    /\ gctx' = TRUE
    /\ UNCHANGED <<buildpc, rpcpc, drainpc, statusChan, recvd, solveErr, errgrp,
                   result, sent, calls, active>>
    /\ UNCHANGED <<mergeVars, traceVars, viewVars, batch, nUpdates, stream>>

\* lines 556-566: Wait returns the recorded error; Build returns it without
\* artifact, or the artifact of the response
WaitReturn ==
    /\ buildpc = "wait" /\ waitOver(rpcpc, drainpc)
    /\ buildpc' = "returned"
    /\ gctx' = TRUE
    /\ result' = IF errgrp # "" THEN [artifact |-> NoArtifact, err |-> errgrp]
                 ELSE [artifact |-> Built, err |-> ""]
    /\ UNCHANGED <<rpcpc, drainpc, statusChan, recvd, solveErr, errgrp, sent,
                   calls, active>>
    /\ UNCHANGED <<mergeVars, traceVars, viewVars, batch, nUpdates, stream>>

BuildNext ==
    \/ Send \/ SolveReturn \/ RpcDone \/ DrainClosed
    \/ FnBegin \/ FnEnd \/ Cancel \/ WaitReturn

SpecBuild == BuildInit /\ [][BuildNext]_vars

\* the goroutines are scheduled and fn returns; Solve need not return
SpecBuildLive ==
    /\ SpecBuild
    /\ WF_vars(RpcDone) /\ WF_vars(DrainClosed) /\ WF_vars(FnBegin)
    /\ WF_vars(FnEnd) /\ WF_vars(WaitReturn)

----------------------------------------------------------------------------
(* Properties of mergeIntervals *)

\* no null start, starts strictly ascending, every stop strictly before the
\* next start (so only the last stop may be null)
OutputOrdered(out) ==
    /\ \A i \in 1..Len(out) : out[i].start # Nil
    /\ \A i \in 1..(Len(out) - 1) :
          /\ out[i].start < out[i + 1].start
          /\ out[i].stop # Nil
          /\ out[i].stop < out[i + 1].start

\* an interval that stops before its own start and shares that start with
\* another interval of the slice
HasBackwardTwin(intervals) ==
    \E i, j \in 1..Len(intervals) :
        /\ i # j
        /\ intervals[i].start # Nil
        /\ intervals[i].start = intervals[j].start
        /\ intervals[i].stop # Nil
        /\ intervals[i].stop < intervals[i].start

\* start <= stop, or no stop, for every started interval
WellFormed(intervals) ==
    \A i \in 1..Len(intervals) :
        \/ intervals[i].start = Nil
        \/ intervals[i].stop = Nil
        \/ intervals[i].start <= intervals[i].stop

\* The instants covered by a slice, on a grid of half steps (instant x stands
\* for the time x/2) that reaches beyond the last time stamp, so that a gap
\* between two consecutive time stamps and an open end are both seen.
Covered(intervals) ==
    {x \in 0..(2 * MaxTime + 1) :
        \E i \in 1..Len(intervals) :
            /\ intervals[i].start # Nil
            /\ 2 * intervals[i].start <= x
            /\ (intervals[i].stop = Nil \/ x <= 2 * intervals[i].stop)}

\* C1 as claimed: for every input slice the output has no null start, is
\* strictly ascending by start, every stop is strictly before the next start
\* and only the last stop may be null.
C1_AnyInputOrdered == mpc # "input" => OutputOrdered(mOut)

\* C1 amended: the same, for every input slice in which no interval that stops
\* before its own start shares its start with another interval.
C1_NoTwinOrdered ==
    (mpc # "input" /\ ~HasBackwardTwin(mInput)) => OutputOrdered(mOut)

C1_Witness ==
    /\ mpc = "merged"
    /\ ~HasBackwardTwin(mInput)
    /\ Len(mInput) = 3
    /\ \E i \in 1..3 : mInput[i].start = Nil
    /\ \E i \in 1..3 : mInput[i].stop # Nil /\ mInput[i].stop < mInput[i].start
    /\ Len(mOut) = 2
    /\ mOut[2].stop = Nil

\* C2: for a slice of well-formed intervals the output covers exactly the
\* instants the started input intervals cover, and
\* [(0,5),(3,8),(10,null)] merges to [(0,8),(10,null)].
C2_SameCoverage ==
    /\ (mpc # "input" /\ WellFormed(mInput))
          => Covered(mOut) = Covered(filterStarted(mInput))
    /\ mergeIntervals(<<Interval(0, 5), Interval(3, 8), Interval(10, Nil)>>)
          = <<Interval(0, 8), Interval(10, Nil)>>

C2_Witness ==
    /\ mpc = "merged"
    /\ WellFormed(mInput)
    /\ Len(filterStarted(mInput)) = 3
    /\ Len(mOut) = 2
    /\ \E i \in 1..2 : \A j \in 1..3 : mOut[i] # mInput[j]

\* C3: merging a merged slice again returns it unchanged.
C3_Idempotent == mpc = "remerged" => mOut2 = mOut

C3_Witness ==
    /\ mpc = "remerged"
    /\ Len(mInput) = 3
    /\ Len(mOut) = 2
    /\ mOut2 = mOut
    /\ \E i \in 1..2 : \A j \in 1..3 : mOut[i] # mInput[j]

\* the started input intervals that have no stop
OpenEnded(intervals) ==
    {i \in 1..Len(intervals) : intervals[i].start # Nil /\ intervals[i].stop = Nil}

AbsorbedAfter(intervals, out, S) ==
    \A i \in S :
        /\ Len(out) > 0
        /\ out[Len(out)].stop = Nil
        /\ \A k \in 1..Len(out) : out[k].start <= intervals[i].start

\* C4 as claimed: if any input interval has a null stop, the last output
\* interval has a null stop and no output interval starts after that input
\* interval's start.
C4_AnyNullStopAbsorbs ==
    mpc # "input" =>
        AbsorbedAfter(mInput, mOut, {i \in 1..Len(mInput) : mInput[i].stop = Nil})

\* C4 amended: the same for every input interval with a non-null start and a
\* null stop; and [(0,null),(5,7)] merges to [(0,null)].
C4_StartedNullStopAbsorbs ==
    /\ mpc # "input" => AbsorbedAfter(mInput, mOut, OpenEnded(mInput))
    /\ mergeIntervals(<<Interval(0, Nil), Interval(5, 7)>>) = <<Interval(0, Nil)>>

C4_Witness ==
    /\ mpc = "merged"
    /\ \E i, j \in 1..Len(mInput) :
          /\ i \in OpenEnded(mInput)
          /\ mInput[j].start > mInput[i].start
          /\ mInput[j].stop # Nil
          /\ mOut = <<mInput[i]>>

----------------------------------------------------------------------------
(* Properties of Trace.Update *)

IsPrefix(a, b) == Len(a) <= Len(b) /\ SubSeq(b, 1, Len(a)) = a

\* the 1-based positions of vertex object o in a display order
Positions(list, o) == {i \in 1..Len(list) : list[i] = o}

\* C5: the display order only grows by appending: the list before an Update
\* is a prefix of the list after it.
C5_OrderOnlyAppends == [][IsPrefix(vertexes, vertexes')]_vars

C5_Witness ==
    /\ Len(vertexes) = 2
    /\ vertexes[1] = VtxObj("d1")
    /\ Cardinality(obj[VtxObj("d1")].intervals) = 2
    /\ batch.Vertexes[1].Digest = "d1"
    /\ batch.Vertexes[1].Group = NoGroup
    /\ batch.Vertexes[1].Started = 2

\* the lines of a byte string: it is cut behind every newline, and what
\* follows the last newline, if anything, is the last line
RECURSIVE LinesOf(_)
LinesOf(str) ==
    IF str = <<>> THEN <<>>
    ELSE IF \A k \in 1..Len(str) : str[k] # NL THEN <<str>>
    ELSE LET k == CHOOSE j \in 1..Len(str) :
                      str[j] = NL /\ \A h \in 1..(j - 1) : str[h] # NL
         IN <<SubSeq(str, 1, k - 1)>> \o LinesOf(SubSeq(str, k + 1, Len(str)))

\* the stored log lines of a vertex without their seconds
LineContents(v) == [i \in 1..Len(v.logs) |-> v.logs[i].dt]

\* C6 as claimed: however the bytes of a vertex's log are cut into chunks,
\* chunks of length zero included, the contents of its stored log lines are
\* the lines of the bytes delivered so far.
C6_ChunkIndependent ==
    \A o \in ObjIds : obj[o].alloc => LineContents(obj[o]) = LinesOf(stream[o])

\* the messages of batch s that Update applies to digest d outside any group
PlainMsgsFor(s, d) ==
    {i \in 1..Len(s.Vertexes) :
        s.Vertexes[i].Digest = d /\ s.Vertexes[i].Group = NoGroup}

\* C7: a batch that introduces an unknown digest and carries a sub-status, a
\* warning and a log chunk for it stores all three on the new vertex, and the
\* seconds of the log line count from the start given in that batch.
C7_SectionOrder ==
    [][\A d \in Digests :
          (/\ byDigest[d] = NoObj
           /\ Len(batch'.Vertexes) = 1 /\ PlainMsgsFor(batch', d) = {1}
           /\ Len(batch'.Statuses) = 1 /\ batch'.Statuses[1].Vertex = d
           /\ Len(batch'.Warnings) = 1 /\ batch'.Warnings[1].Vertex = d
           /\ Len(batch'.Logs) = 1 /\ batch'.Logs[1].Vertex = d)
          => LET v == obj'[VtxObj(d)] IN
             /\ byDigest'[d] = VtxObj(d)
             /\ v.byID = {batch'.Statuses[1]}
             /\ (batch'.Statuses[1].Started # Nil
                   => v.statuses = <<batch'.Statuses[1].ID>>)
             /\ v.warnings = <<batch'.Warnings[1]>>
             /\ LineContents(v) = LinesOf(batch'.Logs[1].Data)
             /\ \A i \in 1..Len(v.logs) :
                   v.logs[i].sec =
                       IF batch'.Vertexes[1].Started # Nil
                       THEN batch'.Logs[1].Timestamp - batch'.Vertexes[1].Started
                       ELSE 0]_vars

C7_Witness ==
    /\ nUpdates = 2
    /\ vertexes = <<VtxObj("d2"), VtxObj("d1")>>
    /\ batch.Vertexes = <<PlainMsg("d1", "build", 2, Nil, FALSE, "")>>
    /\ Len(batch.Statuses) = 1 /\ Len(batch.Warnings) = 1 /\ Len(batch.Logs) = 1
    /\ obj[VtxObj("d1")].statuses = <<"fetch">>
    /\ Len(obj[VtxObj("d1")].warnings) = 1
    /\ obj[VtxObj("d1")].logs = <<[sec |-> 1, prec |-> 3, dt |-> <<"x">>]>>

\* C8: a vertex outside any progress group that has a start keeps one, and an
\* Update whose messages for its digest all come without start leaves its
\* stored message (name, started, completed, cached, error), its intervals
\* and its place in the display order as they are.
C8_StartKept ==
    [][\A d \in Digests :
          LET o == VtxObj(d) IN
          (obj[o].alloc /\ obj[o].Vertex.Started # Nil)
          => /\ obj'[o].Vertex.Started # Nil
             /\ (/\ byDigest[d] = o
                 /\ \A i \in 1..Len(batch'.Vertexes) :
                       batch'.Vertexes[i].Digest = d
                       => i \in PlainMsgsFor(batch', d)
                          /\ batch'.Vertexes[i].Started = Nil)
                => /\ obj'[o].Vertex = obj[o].Vertex
                   /\ obj'[o].intervals = obj[o].intervals
                   /\ obj'[o].mergedIntervals = obj[o].mergedIntervals
                   /\ Positions(vertexes', o) = Positions(vertexes, o)]_vars

C8_Witness ==
    /\ batch.Vertexes = <<PlainMsg("d1", "rebuild", Nil, Nil, TRUE, "failed")>>
    /\ byDigest["d1"] = VtxObj("d1")
    /\ obj[VtxObj("d1")].Vertex = PlainMsg("d1", "build", 1, 3, FALSE, "")
    /\ vertexes = <<VtxObj("d2"), VtxObj("d1")>>

\* C9 as claimed: once a message with a completion time has been applied to a
\* vertex, a later message for its digest with the same start and no
\* completion time leaves the stored completion time and the stop of that
\* interval set, and the vertex completed.
C9_CompletedKept ==
    [][\A d \in Digests :
          LET o == VtxObj(d) IN
          (/\ byDigest[d] = o
           /\ obj[o].Vertex.Started # Nil
           /\ obj[o].Vertex.Completed # Nil
           /\ Len(batch'.Vertexes) = 1 /\ PlainMsgsFor(batch', d) = {1}
           /\ batch'.Vertexes[1].Started = obj[o].Vertex.Started
           /\ batch'.Vertexes[1].Completed = Nil)
          => /\ obj'[o].Vertex.Completed # Nil
             /\ intervalAt(obj'[o].intervals, obj[o].Vertex.Started).stop # Nil
             /\ (isCompleted(obj[o]) => isCompleted(obj'[o]))]_vars

\* C10: a progress group that has been revealed is never hidden again.
C10_RevealedStays ==
    [][\A g \in GroupIds :
          (obj[GrpObj(g)].alloc /\ ~obj[GrpObj(g)].hidden)
          => ~obj'[GrpObj(g)].hidden]_vars

C10_Witness ==
    LET vg == obj[GrpObj("g1")] IN
    /\ vg.alloc /\ ~vg.hidden
    /\ vertexes = <<GrpObj("g1")>>
    /\ vg.Vertex.Error = ""
    /\ vg.subVtxs # {}
    /\ \A x \in vg.subVtxs : x.Started = Nil /\ x.Error = "" /\ x.Cached

----------------------------------------------------------------------------
(* Properties of progress groups and of unknown digests *)

\* the messages of batch s that report a member of progress group g
GroupMsgsFor(s, g) == {i \in 1..Len(s.Vertexes) : s.Vertexes[i].Group = g}

\* no member of group vg has an error, and none was merged into the group
NoMemberError(vg) ==
    /\ vg.Vertex.Error = ""
    /\ \A x \in vg.subVtxs : x.Error = ""

\* some member of group vg that is not weak has started
StrongMemberStarted(vg) == \E x \in vg.subVtxs : ~x.Weak /\ x.Started # Nil

\* C11 as claimed: a progress group without member error stays hidden, and
\* out of the display order, as long as no member that is not weak has
\* started; the Update after which one has started reveals it and leaves it
\* in the display order exactly once.
C11_HiddenUntilStarted ==
    [][\A g \in GroupIds :
          LET o == GrpObj(g) IN
          (/\ obj'[o].alloc
           /\ ~obj[o].alloc \/ obj[o].hidden
           /\ NoMemberError(obj'[o]))
          => IF StrongMemberStarted(obj'[o])
             THEN ~obj'[o].hidden /\ Cardinality(Positions(vertexes', o)) = 1
             ELSE obj'[o].hidden /\ Positions(vertexes', o) = {}]_vars

\* C12 as claimed: the Update in which a member of a hidden progress group
\* first reports an error reveals the group.
C12_ErrorReveals ==
    [][\A g \in GroupIds :
          LET o == GrpObj(g) IN
          (/\ ~obj[o].alloc \/ (obj[o].hidden /\ NoMemberError(obj[o]))
           /\ \E i \in GroupMsgsFor(batch', g) : batch'.Vertexes[i].Error # "")
          => ~obj'[o].hidden]_vars

\* the last message of batch s for digest d as a member of group g, if any
LastReport(s, g, d) ==
    LET is == {i \in GroupMsgsFor(s, g) : s.Vertexes[i].Digest = d} IN
    IF is = {} THEN {}
    ELSE {s.Vertexes[CHOOSE i \in is : \A j \in is : j <= i]}

\* C13: after an Update with a message for a member of a progress group, the
\* group holds for every member seen so far the message that reported it
\* last, and its cached flag is the conjunction of their cached flags.
C13_CachedConjunction ==
    [][\A g \in GroupIds :
          LET o == GrpObj(g)
              latest == {x \in obj[o].subVtxs : LastReport(batch', g, x.Digest) = {}}
                        \cup UNION {LastReport(batch', g, d) : d \in Digests}
          IN GroupMsgsFor(batch', g) # {}
             => /\ obj'[o].subVtxs = latest
                /\ obj'[o].Vertex.Cached = (\A x \in latest : x.Cached)]_vars

C13_Witness ==
    LET vg == obj[GrpObj("g1")] IN
    /\ nUpdates = 3
    /\ GroupMsgsFor(batch, "g1") = {1}
    /\ batch.Vertexes[1].Digest = "d2"
    /\ Cardinality(vg.subVtxs) = 2
    /\ \A x \in vg.subVtxs : x.Cached
    /\ vg.Vertex.Cached

\* C14 as claimed: an Update whose sub-status names a digest that no vertex
\* message has introduced creates the vertex and stores the sub-status on it.
C14_StatusCreatesVertex ==
    [][\A d \in Digests :
          (/\ byDigest[d] = NoObj
           /\ \A i \in 1..Len(batch'.Vertexes) : batch'.Vertexes[i].Digest # d
           /\ \E i \in 1..Len(batch'.Statuses) : batch'.Statuses[i].Vertex = d)
          => /\ byDigest'[d] # NoObj
             /\ \A i \in 1..Len(batch'.Statuses) :
                   batch'.Statuses[i].Vertex = d
                   => hasStatus(obj'[VtxObj(d)], batch'.Statuses[i].ID)]_vars

\* C14 amended: an Update whose sub-status names a digest that no vertex
\* message has introduced does not fail, creates no vertex for it and drops
\* the sub-status.
C14_StatusSkipped ==
    [][\A d \in Digests :
          (/\ byDigest[d] = NoObj
           /\ \A i \in 1..Len(batch'.Vertexes) : batch'.Vertexes[i].Digest # d
           /\ \E i \in 1..Len(batch'.Statuses) : batch'.Statuses[i].Vertex = d)
          => /\ ~panicked'
             /\ byDigest'[d] = NoObj
             /\ \A o \in ObjIds : obj'[o].byID = obj[o].byID
                                   /\ obj'[o].statuses = obj[o].statuses]_vars

C14_Witness ==
    /\ nUpdates = 2
    /\ Len(batch.Statuses) = 1 /\ batch.Statuses[1].Vertex = "d1"
    /\ Len(batch.Vertexes) = 1 /\ batch.Vertexes[1].Digest = "d2"
    /\ byDigest["d1"] = NoObj
    /\ byDigest["d2"] = VtxObj("d2")
    /\ \A o \in ObjIds : obj[o].byID = {}

\* a batch of log chunks and warnings only, all for digests without entry
OnlyUnknownLogs(s) ==
    /\ s.Vertexes = <<>> /\ s.Statuses = <<>>
    /\ Len(s.Warnings) + Len(s.Logs) > 0
    /\ \A i \in 1..Len(s.Warnings) : byDigest[s.Warnings[i].Vertex] = NoObj
    /\ \A i \in 1..Len(s.Logs) : byDigest[s.Logs[i].Vertex] = NoObj

\* C15: an Update that brings only warnings and log chunks for unknown
\* digests leaves the Trace as it was: display order, known digests, every
\* vertex, and with them what DisplayInfo and ErrorLogs return.
C15_UnknownIgnored ==
    [][OnlyUnknownLogs(batch')
       => /\ vertexes' = vertexes
          /\ byDigest' = byDigest
          /\ obj' = obj
          /\ updates' = updates
          /\ startTime' = startTime
          /\ ~panicked'
          /\ DisplayInfo(TheTrace').d = DisplayInfo(TheTrace).d
          /\ ErrorLogs(TheTrace') = ErrorLogs(TheTrace)]_vars

C15_Witness ==
    /\ nUpdates = 2
    /\ batch.Vertexes = <<>> /\ batch.Statuses = <<>>
    /\ Len(batch.Warnings) = 1 /\ Len(batch.Logs) = 1
    /\ byDigest["d1"] = NoObj
    /\ vertexes = <<VtxObj("d2")>>

----------------------------------------------------------------------------
(* Properties of the calls of the view *)

\* C16: no sequence of Update, DisplayInfo, SetupTerminals and ErrorLogs
\* calls, with any of the batches and heights, dereferences nil or indexes
\* out of range.
C16_NoFailure == ~panicked

C16_Witness ==
    /\ ~panicked
    /\ Len(dinfo.Jobs) = 2
    /\ JobAt(TheTrace, dinfo.Jobs[2]).IsCompleted
    /\ Len(rows) = 1
    /\ ~rows[1].IsCompleted
    /\ errorLogs # <<>>

\* C18 as claimed: CountTotal is the number of known vertices outside any
\* group plus the number of revealed groups.
C18_CountTotal ==
    ~panicked
    => DisplayInfo(TheTrace).d.CountTotal =
           Cardinality({d \in Digests : byDigest[d] = VtxObj(d)})
           + Cardinality({g \in GroupIds :
                             obj[GrpObj(g)].alloc /\ ~obj[GrpObj(g)].hidden})

\* a list without the later occurrences of its elements
RECURSIVE Dedup(_)
Dedup(list) ==
    IF list = <<>> THEN <<>>
    ELSE LET front == Dedup(SubSeq(list, 1, Len(list) - 1)) IN
         IF \E i \in 1..Len(front) : front[i] = list[Len(list)] THEN front
         ELSE Append(front, list[Len(list)])

\* what a row is: the primary row of a vertex object, or a row by its name
RowShape(job) ==
    IF job.Vertex # NoObj THEN <<"vertex", job.Vertex>> ELSE <<"row", job.Name>>

\* the rows of one vertex as claimed: its primary row, a row per sub-status
\* in the order of their first start, a row per warning in arrival order
ClaimedRows(o) ==
    <<<<"vertex", o>>>>
    \o [i \in 1..Len(Dedup(obj[o].statuses)) |->
           <<"row", "=> " \o Dedup(obj[o].statuses)[i]>>]
    \o [i \in 1..Len(obj[o].warnings) |->
           <<"row", "WARN: " \o obj[o].warnings[i].Short>>]

RECURSIVE ClaimedList(_)
ClaimedList(n) ==
    IF n = 0 THEN <<>> ELSE ClaimedList(n - 1) \o ClaimedRows(vertexes[n])

\* C17 as claimed: the rows DisplayInfo returns are, for each vertex in
\* display order, its primary row, then its sub-status rows, then its warning
\* rows, and nothing else.
C17_RowOrder ==
    LET r == DisplayInfo(TheTrace) IN
    [i \in 1..Len(r.d.Jobs) |-> RowShape(JobAt(r.t, r.d.Jobs[i]))]
        = ClaimedList(Len(vertexes))

\* strings.HasPrefix
HasPrefix(str, prefix) ==
    Len(str) >= Len(prefix) /\ SubSeq(str, 1, Len(prefix)) = prefix

\* the primary rows DisplayInfo returns now, each with its vertex
PrimaryRows ==
    LET r == DisplayInfo(TheTrace) IN
    {[job |-> JobAt(r.t, r.d.Jobs[i]),
      v |-> r.t.obj[JobAt(r.t, r.d.Jobs[i]).Vertex].Vertex] :
        i \in {k \in 1..Len(r.d.Jobs) : JobAt(r.t, r.d.Jobs[k]).Vertex # NoObj}}

\* C19 as claimed: the row of a vertex with an error is prefixed ERROR or
\* CANCELED and never CACHED; CACHED is put in front exactly when the error is
\* empty and the vertex is cached.
C19_ExclusivePrefixes ==
    \A p \in PrimaryRows :
        /\ p.v.Error # "" => /\ \/ HasPrefix(p.job.Name, "ERROR ")
                                \/ HasPrefix(p.job.Name, "CANCELED ")
                             /\ ~HasPrefix(p.job.Name, "CACHED ")
        /\ HasPrefix(p.job.Name, "CACHED ") <=> (p.v.Error = "" /\ p.v.Cached)

\* a row name without the CACHED prefix
StripCached(name) ==
    IF HasPrefix(name, "CACHED ") THEN SubSeq(name, Len("CACHED ") + 1, Len(name))
    ELSE name

IsCanceledRow(job) ==
    HasPrefix(StripCached(job.Name), "CANCELED ") /\ job.IsCanceled /\ ~job.HasError

IsErrorRow(job) ==
    HasPrefix(StripCached(job.Name), "ERROR ") /\ job.HasError /\ ~job.IsCanceled

Block(o) ==
    <<[line |-> "------"], [line |-> " > " \o obj[o].Vertex.Name \o ":"]>>
    \o [i \in 1..Len(obj[o].logs) |-> [log |-> obj[o].logs[i]]]
    \o <<[line |-> "------"]>>

\* block is a run of consecutive lines of out
Appears(block, out) ==
    \E k \in 0..(Len(out) - Len(block)) :
        SubSeq(out, k + 1, k + Len(block)) = block

Uncached(t) ==
    [t EXCEPT !.obj = [o \in DOMAIN t.obj |-> [t.obj[o] EXCEPT !.jobCached = FALSE]]]

\* the rows a DisplayInfo call returns, by value
RowsOf(r) == [i \in 1..Len(r.d.Jobs) |-> JobAt(r.t, r.d.Jobs[i])]

\* C22 as claimed: after any Update and DisplayInfo calls, DisplayInfo
\* returns the rows a computation from scratch returns, since every event of
\* a vertex drops its cached rows.
C22_CacheTransparent ==
    ~panicked
    => RowsOf(DisplayInfo(TheTrace)) = RowsOf(DisplayInfo(Uncached(TheTrace)))

\* t1 with the row caches of t0
WithCachesOf(t1, t0) ==
    [t1 EXCEPT !.obj = [o \in DOMAIN t1.obj |->
                           [t1.obj[o] EXCEPT !.jobs = t0.obj[o].jobs,
                                             !.jobCached = t0.obj[o].jobCached]]]

\* what two DisplayInfo calls in a row return and leave behind
TwoReads(t) ==
    Bind(DisplayInfo(t), LAMBDA r1 :
    Bind(DisplayInfo(r1.t), LAMBDA r2 :
         [same |-> /\ r2.d.CountTotal = r1.d.CountTotal
                   /\ r2.d.CountCompleted = r1.d.CountCompleted
                   /\ r2.d.Jobs = r1.d.Jobs
                   /\ RowsOf(r2) = RowsOf(r1),
          framed |-> /\ WithCachesOf(r1.t, t) = t
                     /\ WithCachesOf(r2.t, t) = t]))

\* C23: a DisplayInfo call right after a DisplayInfo call returns the same
\* counts and the same rows, and DisplayInfo changes nothing of the Trace
\* but the cached rows of its vertices.
C23_RepeatableRead ==
    ~panicked => (TwoReads(TheTrace).same /\ TwoReads(TheTrace).framed)

C23_Witness ==
    /\ vertexes = <<VtxObj("d1")>>
    /\ obj[VtxObj("d1")].jobCached
    /\ Len(obj[VtxObj("d1")].statuses) = 1
    /\ Len(dinfo.Jobs) = 2
    /\ DisplayInfo(TheTrace).d = dinfo

\* the rows of a DisplayInfo call that are named name
RowsNamed(r, name) ==
    {i \in 1..Len(r.d.Jobs) : JobAt(r.t, r.d.Jobs[i]).Name = name}

\* the most recent merged interval of vertex v in local time, as a row has it
RecentLocal(v) ==
    shiftIntervals(<<IF isStarted(v) THEN mostRecentInterval(v)
                     ELSE Interval(Nil, Nil)>>, localTimeDiff)

\* C24 as claimed: every warning received for a vertex of the display order
\* has exactly one row in what DisplayInfo returns, named "WARN: " and its
\* short text, with the vertex's most recent merged interval (in local time)
\* and not marked completed.  Digest d1 is the only vertex, and all of its
\* warnings have the same text.
C24_WarningRows ==
    (~panicked /\ vertexes = <<VtxObj("d1")>>)
    => LET r == DisplayInfo(TheTrace)
           v == obj[VtxObj("d1")]
       IN /\ Cardinality(RowsNamed(r, "WARN: deprecated")) = Len(v.warnings)
          /\ \A i \in RowsNamed(r, "WARN: deprecated") :
                /\ JobAt(r.t, r.d.Jobs[i]).Intervals = RecentLocal(v)
                /\ ~JobAt(r.t, r.d.Jobs[i]).IsCompleted

\* sub occurs in str
Contains(str, sub) ==
    \E k \in 0..(Len(str) - Len(sub)) : SubSeq(str, k + 1, k + Len(sub)) = sub

\* the scenario: vertex d1, named v1, started at 1 and completed at 3, not
\* cached and without error, with the one sub-status "fetch" at 512 of 1024,
\* one log line and no warning
InScenario ==
    /\ ~panicked
    /\ vertexes = <<VtxObj("d1")>>
    /\ obj[VtxObj("d1")].Vertex.Name = "v1"
    /\ obj[VtxObj("d1")].Vertex.Started = 1
    /\ obj[VtxObj("d1")].Vertex.Completed = 3
    /\ ~obj[VtxObj("d1")].Vertex.Cached
    /\ obj[VtxObj("d1")].Vertex.Error = ""
    /\ obj[VtxObj("d1")].statuses = <<"fetch">>
    /\ statusAt(obj[VtxObj("d1")], "fetch").Current = 512
    /\ statusAt(obj[VtxObj("d1")], "fetch").Total = 1024
    /\ Len(obj[VtxObj("d1")].logs) = 1

\* the rows of the scenario, the sub-status row with status text txt
ScenarioRows(rws, txt) ==
    /\ Len(rws) = 2
    /\ rws[1].Vertex = VtxObj("d1")
    /\ rws[1].Name = "v1"
    /\ rws[1].IsCompleted
    /\ rws[1].Status = ""
    /\ rws[1].Intervals = shiftIntervals(<<Interval(1, 3)>>, localTimeDiff)
    /\ rws[2].Name = "=> fetch"
    /\ rws[2].Status = txt

\* the status text of the row of sub-status s has the claimed form
StatusForm(txt, s) ==
    /\ s.Total # 0 => Contains(txt, " / ")
    /\ (s.Total = 0 /\ s.Current # 0) => (txt # "" /\ ~Contains(txt, " / "))
    /\ (s.Total = 0 /\ s.Current = 0) => txt = ""

\* every sub-status row DisplayInfo returns for d1 has the claimed form
StatusRowsFormed ==
    (~panicked /\ vertexes = <<VtxObj("d1")>>
     /\ obj[VtxObj("d1")].statuses = <<"fetch">>)
    => \A i \in RowsNamed(DisplayInfo(TheTrace), "=> fetch") :
          StatusForm(RowsOf(DisplayInfo(TheTrace))[i].Status,
                     statusAt(obj[VtxObj("d1")], "fetch"))

RECURSIVE IsSubSeq(_, _)
IsSubSeq(a, b) ==
    IF Len(a) = 0 THEN TRUE
    ELSE IF Len(b) < Len(a) THEN FALSE
    ELSE IF Head(a) = Head(b) THEN IsSubSeq(Tail(a), Tail(b))
    ELSE IsSubSeq(a, Tail(b))

\* the rows of list, as a set
Elems(list) == {list[i] : i \in 1..Len(list)}

\* the candidates among the rows given by g, as claimed: the incomplete
\* rows of a vertex that has written terminal bytes
ClaimedCandidates(g) ==
    {ref \in Elems(g.d.Jobs) :
        /\ ~JobAt(g.t, ref).IsCompleted
        /\ JobAt(g.t, ref).Vertex # NoObj
        /\ g.t.obj[JobAt(g.t, ref).Vertex].termBytes > 0}

\* the score as claimed: terminal bytes and 50 per earlier reveal
ClaimedScore(g, ref) ==
    g.t.obj[JobAt(g.t, ref).Vertex].termBytes
    + 50 * g.t.obj[JobAt(g.t, ref).Vertex].TermCount

\* the free space as claimed: height - 2 - number of incomplete rows
ClaimedFree(g, height) ==
    height - 2
    - Cardinality({i \in 1..Len(g.d.Jobs) : ~JobAt(g.t, g.d.Jobs[i]).IsCompleted})

\* the number of panes granted as claimed: of nc candidates, with free lines
\* to begin with, a pane taking th + 3 lines
ClaimedGrants(nc, free, th) ==
    Cardinality({i \in 0..(nc - 1) : free - i * (th + 3) > th + 3})

\* the row limit as claimed, each granted pane using u lines
ClaimedLimit(g, height, u) ==
    height - 2
    - u * ClaimedGrants(Cardinality(ClaimedCandidates(g)),
                        ClaimedFree(g, height), paneHeight(height))

\* the rows SetupTerminals returns for the rows given by g when asked for the
\* rows that fit, with the Trace it leaves and the row limit as claimed
Trimmed(g, height, u) ==
    Bind(SetupTerminals(g.t, g.d.Jobs, height, FALSE, [o \in ObjIds |-> u]),
         LAMBDA r : [t |-> r.t, jobs |-> r.jobs,
                     limit |-> ClaimedLimit(g, height, u)])

\* P holds of what SetupTerminals returns for the rows DisplayInfo returns
\* now, at every height and for every height its panes may use
ForEveryTrim(P(_, _)) ==
    ~panicked
    => Bind(DisplayInfo(TheTrace), LAMBDA g :
            \A height \in PaneHeights, u \in UsedHeightsFor(g.t, g.d.Jobs) :
                Bind(Trimmed(g, height, u), LAMBDA r : P(g, r)))

\* C26 as claimed: with renderAll=false and a row limit that is not
\* negative, every incomplete row given is among the rows returned.
C26_NoIncompleteDropped ==
    ForEveryTrim(LAMBDA g, r :
        r.limit >= 0
        => \A ref \in Elems(g.d.Jobs) :
              ~JobAt(g.t, ref).IsCompleted => ref \in Elems(r.jobs))

\* C27: with renderAll=false the rows returned are rows given, none more
\* often than given, in the order given.
C27_OrderedSubList ==
    ForEveryTrim(LAMBDA g, r : IsSubSeq(r.jobs, g.d.Jobs))

C27_Witness ==
    /\ ~panicked
    /\ Len(dinfo.Jobs) = 3
    /\ ~JobAt(TheTrace, dinfo.Jobs[1]).IsCompleted
    /\ JobAt(TheTrace, dinfo.Jobs[2]).IsCompleted
    /\ JobAt(TheTrace, dinfo.Jobs[3]).IsCompleted
    /\ rows = <<JobAt(TheTrace, dinfo.Jobs[1]), JobAt(TheTrace, dinfo.Jobs[3])>>

\* C28: with renderAll=false and a row limit that is not negative, the
\* number of rows returned is the smaller of the number given and the limit.
C28_ExactLength ==
    ForEveryTrim(LAMBDA g, r :
        r.limit >= 0 => Len(r.jobs) = Min(Len(g.d.Jobs), r.limit))

C28_Witness ==
    /\ ~panicked
    /\ Len(dinfo.Jobs) = 3
    /\ ~JobAt(TheTrace, dinfo.Jobs[1]).IsCompleted
    /\ ~JobAt(TheTrace, dinfo.Jobs[2]).IsCompleted
    /\ Len(rows) = 2
    /\ rows[2] = JobAt(TheTrace, dinfo.Jobs[3])

\* C29: with renderAll=false, a negative row limit gives no rows and no
\* failure, and any other limit gives rows and no failure.
C29_NegativeBudget ==
    ForEveryTrim(LAMBDA g, r :
        /\ ~r.t.panicked
        /\ r.limit < 0 => r.jobs = <<>>)

C29_Witness ==
    /\ ~panicked
    /\ Len(dinfo.Jobs) = 2
    /\ rows = <<>>

\* the rows given by g that have ShowTerm set in Trace t
Granted(g, t) == {ref \in Elems(g.d.Jobs) : JobAt(t, ref).ShowTerm}

\* the grants as claimed: G of the candidates C, with free lines to begin
\* with and panes of th + 3 lines
GrantsAsClaimed(g, G, C, free, th) ==
    /\ G \subseteq C
    /\ Cardinality(G) = ClaimedGrants(Cardinality(C), free, th)
    /\ \A x \in G : \A c \in C \ G : ClaimedScore(g, c) <= ClaimedScore(g, x)
    /\ G # {} => Cardinality(G) * (th + 3) < free

\* C30: given rows none of which has ShowTerm set, SetupTerminals sets it on
\* candidates only, on as many as the claimed count, on none while a
\* candidate of higher score goes without, and the panes granted take less
\* than the free space.
C30_GreedyGrants ==
    ~panicked
    => Bind(DisplayInfo(TheTrace), LAMBDA g :
            Granted(g, g.t) = {}
            => \A height \in PaneHeights, all \in BOOLEAN :
                  Bind(SetupTerminals(g.t, g.d.Jobs, height, all,
                                      [o \in ObjIds |-> 0]).t, LAMBDA t1 :
                       GrantsAsClaimed(g, Granted(g, t1), ClaimedCandidates(g),
                                       ClaimedFree(g, height), t1.TermHeight)))

C30_Witness ==
    /\ ~panicked
    /\ Len(rows) = 2
    /\ rows[1].Vertex = VtxObj("d1") /\ rows[1].ShowTerm
    /\ rows[2].Vertex = VtxObj("d2") /\ ~rows[2].ShowTerm
    /\ ~rows[2].IsCompleted
    /\ obj[VtxObj("d1")].termBytes = 1 /\ obj[VtxObj("d1")].TermCount = 2
    /\ obj[VtxObj("d2")].termBytes = 2 /\ obj[VtxObj("d2")].TermCount = 0

\* the heights C31 is read at: those of SpecPanes, zero, and the heights
\* around the one where height - 7 passes the minimum
ClampHeights == PaneHeights \cup {0, 12, 13, 14}

\* C31: after SetupTerminals, at every height (zero and negative included),
\* TermHeight is at least termHeightMin and at most the larger of
\* termHeightMin and height - 7.
C31_PaneHeightBounds ==
    ~panicked
    => Bind(DisplayInfo(TheTrace), LAMBDA g :
            \A height \in ClampHeights, all \in BOOLEAN :
                Bind(SetupTerminals(g.t, g.d.Jobs, height, all,
                                    [o \in ObjIds |-> 0]).t, LAMBDA t1 :
                     /\ t1.TermHeight >= termHeightMin
                     /\ t1.TermHeight <= Max(termHeightMin, height - 7)))

C31_Witness ==
    /\ ~panicked
    /\ Len(rows) = 2
    /\ rows[1].ShowTerm /\ rows[2].ShowTerm
    /\ TermHeight = termHeightMin

\* the log lines stored for the vertices of the Trace
StoredLines ==
    UNION {{obj[o].logs[i] : i \in 1..Len(obj[o].logs)} : o \in ObjIds}

\* C32 as claimed: the seconds prefixes of the stored log lines all have the
\* same number of characters, whatever the elapsed time (1000 s or more and
\* negative included), and are printed with 3 decimals under 10 s, 2 under
\* 100 s and 1 otherwise.
C32_FixedWidthPrefix ==
    /\ \A x \in StoredLines :
          x.prec = IF x.sec < 10 THEN 3 ELSE IF x.sec < 100 THEN 2 ELSE 1
    /\ \A x, y \in StoredLines :
          Len(secondsPrefix(x)) = Len(secondsPrefix(y))

\* the status the loop has received and has not yet called fn with
Pending == IF drainpc = "fn" THEN recvd ELSE <<>>

\* C33: the statuses fn has been called with, followed by the one the loop
\* holds, are the statuses sent, in send order, each once; no two calls of
\* fn are in progress together; Update has been called once per call of fn
\* that has returned; and when the loop has ended every status sent has
\* been passed to fn.
C33_DrainInOrder ==
    /\ calls \o Pending = sent
    /\ active <= 1
    /\ nUpdates = Len(calls) - active
    /\ drainpc = "done" => calls = sent

C33_Witness ==
    /\ buildpc = "returned"
    /\ Len(sent) = 3
    /\ sent[1] # sent[2]
    /\ calls = sent
    /\ nUpdates = 3

\* Build does not return before both goroutines have finished
JoinedBeforeReturn ==
    [](buildpc = "returned" => rpcpc = "done" /\ drainpc = "done")

\* once the function of the Solve goroutine has returned an error, the group
\* holds that error and its context is cancelled
ErrorCancels ==
    [](rpcpc = "done" /\ solveErr # "" => gctx /\ errgrp = solveErr)

\* when Solve has returned an error, the loop ends, and Build returns that
\* error and no artifact
ErrorReturned ==
    \A e \in SolveErrors :
        (rpcpc = "returned" /\ solveErr = e)
        ~> (/\ drainpc = "done"
            /\ buildpc = "returned"
            /\ result = [artifact |-> NoArtifact, err |-> e])

\* when Solve has returned an error, the loop ends only with the group
\* context cancelled
EndsOnCancel ==
    [][solveErr # "" /\ drainpc # "done" /\ drainpc' = "done" => gctx]_vars

\* C34 as claimed: when Solve returns an error the group context is
\* cancelled, the loop ends on seeing the cancellation, and Build returns
\* that error and no artifact, never before both goroutines have finished.
C34_CancelUnwindsDrain ==
    JoinedBeforeReturn /\ ErrorCancels /\ EndsOnCancel /\ ErrorReturned

\* C34, amended: when Solve returns an error the group context is cancelled,
\* the loop ends on finding statusChan closed (before or after the
\* cancellation), and Build returns that error and no artifact, never before
\* both goroutines have finished.
C34_FirstErrorWins ==
    /\ JoinedBeforeReturn /\ ErrorCancels /\ ErrorReturned
    /\ [][drainpc # "done" /\ drainpc' = "done" => statusChan = "closed"]_vars

C34_Witness ==
    /\ buildpc = "returned"
    /\ result = [artifact |-> NoArtifact, err |-> "solve failed"]
    /\ Len(calls) = 2
    /\ gctx

\* the incomplete rows among the rows given by g
IncompleteRows(g) ==
    {ref \in Elems(g.d.Jobs) : ~JobAt(g.t, ref).IsCompleted}

\* C35 as claimed: for the rows DisplayInfo returns and every limit from 0
\* that is at least the number of incomplete rows, every incomplete row is
\* among the rows wrapHeight returns.
C35_IncompleteKeptWhenFit ==
    ~panicked
    => Bind(DisplayInfo(TheTrace), LAMBDA g :
            \A limit \in 0..(Len(g.d.Jobs) + 1) :
                Cardinality(IncompleteRows(g)) <= limit
                => IncompleteRows(g)
                      \subseteq Elems(wrapHeight(g.t, g.d.Jobs, limit).jobs))

\* intervals with its i-th and j-th elements exchanged
Exchanged(intervals, i, j) ==
    [intervals EXCEPT ![i] = intervals[j], ![j] = intervals[i]]

\* the slices that differ from intervals by the exchange of two elements;
\* every order of the elements is reached by such exchanges, one after another
Reordered(intervals) ==
    {Exchanged(intervals, i, j) : i, j \in 1..Len(intervals)}

\* C36 as claimed: for every input slice, mergeIntervals returns the same
\* when two elements of the slice are exchanged, and so for every order of
\* its elements.
C36_AnyOrderSame ==
    mpc = "merged" => \A other \in Reordered(mInput) : mergeIntervals(other) = mOut

\* C36 amended: the same, for every input slice in which no interval that
\* stops before its own start shares its start with another interval (an
\* exchange leaves such a slice such a slice).
C36_NoTwinOrderSame ==
    (mpc = "merged" /\ ~HasBackwardTwin(mInput))
    => \A other \in Reordered(mInput) : mergeIntervals(other) = mOut

C36_Witness ==
    /\ mpc = "merged"
    /\ ~HasBackwardTwin(mInput)
    /\ Len(mInput) = 3
    /\ mInput[1].start = mInput[2].start /\ mInput[1].start = mInput[3].start
    /\ mInput[1].stop = Nil /\ mInput[2].stop # Nil /\ mInput[3].stop # Nil
    /\ mInput[2].stop < mInput[3].stop
    /\ Len(mOut) = 1

\* the rows among jobs that are rows of vertex object o, as positions
RowsOfVertex(t, jobs, o) == {i \in 1..Len(jobs) : JobAt(t, jobs[i]).Vertex = o}

\* no vertex object is in the display order twice
NoVertexTwice == \A o \in ObjIds : Cardinality(Positions(vertexes, o)) <= 1

\* no vertex object in the display order is hidden
NoHiddenListed == \A i \in 1..Len(vertexes) : ~obj[vertexes[i]].hidden

\* C37 as claimed: the display order holds no vertex twice and no hidden
\* vertex, and DisplayInfo returns one row for every vertex of the display
\* order and none for any other (the batches bring no sub-status or warning,
\* so every row is a primary row).
C37_DisplayOrderSound ==
    /\ NoVertexTwice
    /\ NoHiddenListed
    /\ ~panicked
       => Bind(DisplayInfo(TheTrace), LAMBDA g :
               \A o \in ObjIds :
                   Cardinality(RowsOfVertex(g.t, g.d.Jobs, o))
                   = IF Positions(vertexes, o) # {} /\ ~obj[o].hidden THEN 1 ELSE 0)

\* the positions of sub-status id in the ordered sub-status list of v
StatusPositions(v, id) == {i \in 1..Len(v.statuses) : v.statuses[i] = id}

\* the rows among jobs named "=> id", as positions
StatusRows(t, jobs, id) ==
    {i \in 1..Len(jobs) : JobAt(t, jobs[i]).Name = "=> " \o id}

\* C38 as claimed: a sub-status id is at most once in the ordered sub-status
\* list of its vertex, and DisplayInfo returns at most one row "=> id" for
\* it, with the completion and the byte count of the last message for the id.
C38_StatusListedOnce ==
    /\ \A o \in ObjIds : Cardinality(StatusPositions(obj[o], "fetch")) <= 1
    /\ ~panicked
       => Bind(DisplayInfo(TheTrace), LAMBDA g :
               /\ Cardinality(StatusRows(g.t, g.d.Jobs, "fetch")) <= 1
               /\ \A i \in StatusRows(g.t, g.d.Jobs, "fetch") :
                     /\ JobAt(g.t, g.d.Jobs[i]).IsCompleted
                        = (batch.Statuses[1].Completed # Nil)
                     /\ JobAt(g.t, g.d.Jobs[i]).Status
                        = statusText(batch.Statuses[1]))

\* C39 as claimed: for every vertex in the display order, the primary row
\* DisplayInfo returns has IsCompleted set if and only if the vertex is
\* completed as CountCompleted takes it: it has a merged interval and the
\* most recent one has a stop.
C39_CompletionAgrees ==
    ~panicked
    => Bind(DisplayInfo(TheTrace), LAMBDA g :
            \A k \in 1..Len(vertexes) :
                \A i \in RowsOfVertex(g.t, g.d.Jobs, vertexes[k]) :
                    JobAt(g.t, g.d.Jobs[i]).IsCompleted
                    = isCompleted(g.t.obj[vertexes[k]]))

\* batch s has a message for a member of group g, so Update refreshes g
Refreshes(s, g) == \E i \in 1..Len(s.Vertexes) : s.Vertexes[i].Group = g

\* C40 as claimed: a group whose merged error is non-empty has the same
\* error after every Update that refreshes it.
C40_ErrorSticky ==
    [][\A g \in GroupIds :
          (/\ obj[GrpObj(g)].alloc
           /\ obj[GrpObj(g)].Vertex.Error # ""
           /\ Refreshes(batch', g))
          => obj'[GrpObj(g)].Vertex.Error = obj[GrpObj(g)].Vertex.Error]_vars

====
